---- MODULE Spec2Model ----
(***************************************************************************)
(* Model of the trustworthy model registry: the rating engine (eight       *)
(* metric scorers, the calculator, the rate_model endpoint and its ratings *)
(* cache) and the registry operations of the artifacts API.                *)
(*                                                                         *)
(* Conventions.                                                            *)
(*  - A Python str is a sequence of one-character strings, so that `in`,   *)
(*    lower(), strip(), endswith() and the regular expressions of the      *)
(*    URL parser are computed and not assumed.                             *)
(*  - A Python float is a fixed-point integer in thousandths (Scale):      *)
(*    0.4 is 400, 1.0 is 1000.  An int n stored in a float field is        *)
(*    n * Scale.                                                           *)
(*  - A Python dict is a function whose domain is its key set.             *)
(*  - The body of a README is kept as what the scorers look for in it (the *)
(*    phrases present, counts of code blocks and numeric results, the text *)
(*    of its License section); a file listing is kept entry by entry.      *)
(*  - Timestamps (created_at, updated_at, computed_at) are written and     *)
(*    never read by the operations modelled; they are left out.            *)
(*  - Artifact ids are fresh: generate_artifact_id never repeats one.      *)
(***************************************************************************)
EXTENDS Integers, Sequences, FiniteSets, TLC

(***************************************************************************)
(* Strings                                                                 *)
(***************************************************************************)
None == <<"None">>

NoDict == [k \in {} |-> 0]

Contains(needle, hay) ==
    \E i \in 0..(Len(hay) - Len(needle)) :
        SubSeq(hay, i + 1, i + Len(needle)) = needle

EndsWith(s, suf) ==
    /\ Len(suf) <= Len(s)
    /\ SubSeq(s, Len(s) - Len(suf) + 1, Len(s)) = suf

\* first index (1-based) at which needle occurs in hay, 0 when it does not
IndexOf(needle, hay) ==
    IF Contains(needle, hay)
    THEN CHOOSE i \in 1..Len(hay) :
            /\ i + Len(needle) - 1 <= Len(hay)
            /\ SubSeq(hay, i, i + Len(needle) - 1) = needle
            /\ \A j \in 1..(i - 1) :
                  \/ j + Len(needle) - 1 > Len(hay)
                  \/ SubSeq(hay, j, j + Len(needle) - 1) # needle
    ELSE 0

UpperCase == <<"A","B","C","D","E","F","G","H","I","J","K","L","M",
               "N","O","P","Q","R","S","T","U","V","W","X","Y","Z">>
LowerCase == <<"a","b","c","d","e","f","g","h","i","j","k","l","m",
               "n","o","p","q","r","s","t","u","v","w","x","y","z">>

LowerChar(c) ==
    IF \E i \in 1..Len(UpperCase) : UpperCase[i] = c
    THEN LowerCase[CHOOSE i \in 1..Len(UpperCase) : UpperCase[i] = c]
    ELSE c

Lower(s) == [i \in 1..Len(s) |-> LowerChar(s[i])]

IsSpace(c) == c \in {" ", "\t", "\n"}

RECURSIVE LStrip(_)
LStrip(s) == IF s # <<>> /\ IsSpace(Head(s)) THEN LStrip(Tail(s)) ELSE s

RECURSIVE RStrip(_)
RStrip(s) ==
    IF s # <<>> /\ IsSpace(s[Len(s)]) THEN RStrip(SubSeq(s, 1, Len(s) - 1)) ELSE s

Strip(s) == RStrip(LStrip(s))

\* the longest prefix of s holding none of the characters of stop
RECURSIVE TakeUntil(_, _)
TakeUntil(s, stop) ==
    IF s = <<>> \/ Head(s) \in stop THEN <<>>
    ELSE <<Head(s)>> \o TakeUntil(Tail(s), stop)

\* s with every occurrence of old removed, left to right (str.replace(old, ''))
RECURSIVE Remove(_, _)
Remove(s, old) ==
    IF Len(s) < Len(old) THEN s
    ELSE IF SubSeq(s, 1, Len(old)) = old
         THEN Remove(SubSeq(s, Len(old) + 1, Len(s)), old)
         ELSE <<Head(s)>> \o Remove(Tail(s), old)

(***************************************************************************)
(* canonicalize_name                                                       *)
(***************************************************************************)
HexPairs == { <<"2","F">>, <<"2","f">>, <<"2","0">>, <<"2","5">>, <<"4","1">> }

HexChar(p) ==
    CASE p \in { <<"2","F">>, <<"2","f">> } -> "/"
      [] p = <<"2","0">> -> " "
      [] p = <<"2","5">> -> "%"
      [] p = <<"4","1">> -> "A"

\* urllib.parse.unquote, one pass, over the escapes of HexPairs
RECURSIVE unquote(_)
unquote(s) ==
    IF s = <<>> THEN <<>>
    ELSE IF Head(s) = "%" /\ Len(s) >= 3 /\ SubSeq(s, 2, 3) \in HexPairs
         THEN <<HexChar(SubSeq(s, 2, 3))>> \o unquote(SubSeq(s, 4, Len(s)))
         ELSE <<Head(s)>> \o unquote(Tail(s))

\* re.sub(r'/+', '/', name)
RECURSIVE CollapseSlashes(_)
CollapseSlashes(s) ==
    IF Len(s) < 2 THEN s
    ELSE IF s[1] = "/" /\ s[2] = "/" THEN CollapseSlashes(Tail(s))
         ELSE <<Head(s)>> \o CollapseSlashes(Tail(s))

canonicalize_name(name) ==
    IF name = None THEN <<>>
    ELSE LET a == CollapseSlashes(Strip(unquote(name)))
             b == IF a # <<"/">> /\ EndsWith(a, <<"/">>)
                  THEN SubSeq(a, 1, Len(a) - 1) ELSE a
         IN Lower(b)

(***************************************************************************)
(* URLParser                                                               *)
(***************************************************************************)
S_https == <<"h","t","t","p","s",":","/","/">>
S_hf == <<"h","u","g","g","i","n","g","f","a","c","e",".","c","o","/">>
S_hf_datasets == S_hf \o <<"d","a","t","a","s","e","t","s","/">>
S_github == <<"g","i","t","h","u","b",".","c","o","m","/">>
S_tree_main == <<"/","t","r","e","e","/","m","a","i","n">>

identify_url_type(url0) ==
    LET url == Strip(Lower(url0))
    IN IF Contains(S_hf_datasets, url) THEN "DATASET"
       ELSE IF Contains(S_github, url) THEN "CODE"
       ELSE IF Contains(S_hf, url) THEN "MODEL"
       ELSE "MODEL"

\* the text after the first occurrence of prefix in url, None without one
After(prefix, url) ==
    IF Contains(prefix, url)
    THEN SubSeq(url, IndexOf(prefix, url) + Len(prefix), Len(url))
    ELSE None

\* parse_model_url: the name of the model, None when the pattern
\* huggingface\.co/([^?]+) does not match.  The metadata request of the parser
\* never makes it fail (any failure leaves api_data empty).
parse_model_url(url0) ==
    LET url  == IF Contains(S_tree_main, url0) THEN Remove(url0, S_tree_main) ELSE url0
        rest == After(S_hf, url)
    IN IF rest = None \/ TakeUntil(rest, {"?"}) = <<>> THEN None
       ELSE TakeUntil(rest, {"?"})

\* the match of ([^/]+)/([^/?]+) at the start of rest, None without one
OwnerRepo(rest) ==
    LET owner == TakeUntil(rest, {"/"})
        tail  == SubSeq(rest, Len(owner) + 2, Len(rest))
        repo  == TakeUntil(tail, {"/", "?"})
    IN IF owner = <<>> \/ Len(rest) <= Len(owner) \/ repo = <<>> THEN None
       ELSE owner \o <<"/">> \o repo

parse_dataset_url(url) ==
    IF After(S_hf_datasets, url) = None THEN None
    ELSE OwnerRepo(After(S_hf_datasets, url))

parse_code_url(url) ==
    IF After(S_github, url) = None THEN None
    ELSE OwnerRepo(After(S_github, url))

\* parse_url: the dict with name and type; ok = FALSE stands for None
parse_url(url) ==
    LET t == identify_url_type(url)
        n == CASE t = "MODEL"   -> parse_model_url(url)
               [] t = "DATASET" -> parse_dataset_url(url)
               [] t = "CODE"    -> parse_code_url(url)
    IN [ok   |-> n # None,
        name |-> IF n = None THEN <<>> ELSE n,
        type |-> CASE t = "MODEL" -> "model"
                   [] t = "DATASET" -> "dataset"
                   [] t = "CODE" -> "code"]

(***************************************************************************)
(* Numbers                                                                 *)
(***************************************************************************)
Scale == 10 * 100

Min(a, b) == IF a <= b THEN a ELSE b
Max(a, b) == IF a >= b THEN a ELSE b

\* the product of two fixed-point numbers
Mul(a, b) == (a * b) \div Scale

\* the number of elements of the sequence s that satisfy Test
Count(s, Test(_)) == Cardinality({i \in 1..Len(s) : Test(s[i])})

\* the sum of F over the elements of items
SumOver(items, F(_)) ==
    LET acc[i \in 0..Len(items)] == IF i = 0 THEN 0 ELSE acc[i - 1] + F(items[i])
    IN acc[Len(items)]

AnyIn(words, text) == \E w \in words : Contains(w, text)

KnownModels ==
    << <<"b","e","r","t">>,
       <<"g","p","t">>,
       <<"w","h","i","s","p","e","r">>,
       <<"t","5">>,
       <<"r","o","b","e","r","t","a">>,
       <<"v","i","t">>,
       <<"c","l","i","p">>,
       <<"r","e","s","n","e","t">>,
       <<"s","w","i","n">>,
       <<"l","l","a","m","a">>,
       <<"m","i","s","t","r","a","l">>,
       <<"f","a","l","c","o","n">> >>
LicenseKeys ==
    << <<"a","p","a","c","h","e","-","2",".","0">>,
       <<"m","i","t">>,
       <<"b","s","d","-","3","-","c","l","a","u","s","e">>,
       <<"b","s","d","-","2","-","c","l","a","u","s","e">>,
       <<"l","g","p","l","-","2",".","1">>,
       <<"l","g","p","l","-","3",".","0">>,
       <<"g","p","l","-","2",".","0">>,
       <<"g","p","l","-","3",".","0">>,
       <<"c","c","-","b","y","-","4",".","0">>,
       <<"c","c","-","b","y","-","s","a","-","4",".","0">>,
       <<"u","n","k","n","o","w","n">>,
       <<"o","t","h","e","r">> >>
KnownOrgs ==
    << <<"o","p","e","n","a","i">>,
       <<"g","o","o","g","l","e">>,
       <<"m","i","c","r","o","s","o","f","t">>,
       <<"m","e","t","a","-","l","l","a","m","a">>,
       <<"a","n","t","h","r","o","p","i","c">>,
       <<"h","u","g","g","i","n","g","f","a","c","e">>,
       <<"f","a","c","e","b","o","o","k">>,
       <<"m","i","s","t","r","a","l","a","i">>,
       <<"n","v","i","d","i","a">>,
       <<"s","t","a","b","i","l","i","t","y","a","i">> >>
EvaluationTags ==
    << <<"e","v","a","l","u","a","t","i","o","n">>,
       <<"b","e","n","c","h","m","a","r","k">>,
       <<"l","e","a","d","e","r","b","o","a","r","d">>,
       <<"p","e","r","f","o","r","m","a","n","c","e">>,
       <<"t","e","s","t","e","d">>,
       <<"v","a","l","i","d","a","t","e","d">>,
       <<"e","v","a","l">> >>
StandardFiles ==
    << <<"r","e","q","u","i","r","e","m","e","n","t","s",".","t","x","t">>,
       <<"s","e","t","u","p",".","p","y">>,
       <<"p","y","p","r","o","j","e","c","t",".","t","o","m","l">>,
       <<"c","o","n","f","i","g",".","j","s","o","n">>,
       <<"t","o","k","e","n","i","z","e","r",".","j","s","o","n">>,
       <<"R","E","A","D","M","E",".","m","d">> >>
W_apache == <<"a","p","a","c","h","e">>
W_mit == <<"m","i","t">>
W_bsd == <<"b","s","d">>
W_cc == <<"c","c">>
W_creative == <<"c","r","e","a","t","i","v","e">>
W_lgpl == <<"l","g","p","l">>
W_gpl == <<"g","p","l">>
W_7b == <<"7","b">>
W_7_b == <<"7","-","b">>
W_13b == <<"1","3","b">>
W_13_b == <<"1","3","-","b">>
W_70b == <<"7","0","b">>
W_70_b == <<"7","0","-","b">>
W_3b == <<"3","b">>
W_3_b == <<"3","-","b">>
W_1b == <<"1","b">>
W_1_b == <<"1","-","b">>
W_small == <<"s","m","a","l","l">>
W_large == <<"l","a","r","g","e">>
X_py == <<".","p","y">>
X_ipynb == <<".","i","p","y","n","b">>
X_md == <<".","m","d">>
X_json == <<".","j","s","o","n">>
X_yaml == <<".","y","a","m","l">>
X_yml == <<".","y","m","l">>
X_toml == <<".","t","o","m","l">>
W_train == <<"t","r","a","i","n">>
W_inference == <<"i","n","f","e","r","e","n","c","e">>
W_run == <<"r","u","n">>
W_example == <<"e","x","a","m","p","l","e">>
W_demo == <<"d","e","m","o">>
W_sample == <<"s","a","m","p","l","e">>
W_test == <<"t","e","s","t">>
W_readme == <<"r","e","a","d","m","e">>
F_training_args == <<"t","r","a","i","n","i","n","g","_","a","r","g","s",".","j","s","o","n">>
F_run_sh == <<"r","u","n",".","s","h">>
F_train_sh == <<"t","r","a","i","n",".","s","h">>

(***************************************************************************)
(* The data the scorers read                                               *)
(*                                                                         *)
(* ModelInfo: isNone stands for a null descriptor (every attribute access  *)
(* raises).  api_data is a dict; model_index is a list of dicts, each with *)
(* an optional "results" list (a result being a dict with an optional      *)
(* "metrics" list, kept by its length) and an optional "datasets" list     *)
(* (kept by its length); tags is a list of strings; last_modified is       *)
(* absent, unparsable, or a date kept as its age in days.  Every scorer    *)
(* reads model_index and tags through their truth value and likes and      *)
(* downloads through `or 0`, so None is kept as the empty list and as 0.   *)
(*                                                                         *)
(* A metadata fetch (requests.Session.get) raises (k = "exc") or answers   *)
(* (k = "resp") with a status and a body.  The body of a README is kept by *)
(* what the scorers test in it: the set of lower-cased phrases it holds    *)
(* (terms), the case-sensitive phrases (raw), the counts the regular       *)
(* expressions return, and the text the license patterns capture.  The     *)
(* body of a file listing is the JSON list itself.  One outcome stands for *)
(* every request of one computation to the same URL.                       *)
(***************************************************************************)
IsKnownModel(name) ==
    \E i \in 1..Len(KnownModels) : Contains(KnownModels[i], Lower(name))

Truthy(s) == s # None /\ s # <<>>

Fails(f) == f.k = "exc" \/ (f.status = 200 /\ f.body.bad)

(***************************************************************************)
(* LicenseMetric                                                           *)
(***************************************************************************)
LicenseScores == <<900, 900, 1000, 1000, 1000, 800, 300, 300, 700, 600, 500, 500>>

LicenseDefault == 500

_parse_license_from_readme(mi, up) ==
    LET r == up.readme
    IN IF r.k = "exc" THEN None
       ELSE IF r.status # 200 THEN None
       ELSE IF r.body.bad THEN None
       ELSE IF r.body.sec # None THEN Strip(r.body.sec)
       ELSE IF r.body.line # None THEN Strip(r.body.line)
       ELSE None

\* a lookup in which the last table key contained wins
LicenseLookupLast(license_key) ==
    IF \E i \in 1..Len(LicenseKeys) : Contains(LicenseKeys[i], license_key)
    THEN LicenseScores[CHOOSE i \in 1..Len(LicenseKeys) :
            /\ Contains(LicenseKeys[i], license_key)
            /\ \A j \in (i + 1)..Len(LicenseKeys) : ~Contains(LicenseKeys[j], license_key)]
    ELSE IF AnyIn({W_apache, W_mit, W_bsd}, license_key) THEN 900
    ELSE IF AnyIn({W_cc, W_creative}, license_key) THEN 700
    ELSE IF Contains(W_lgpl, license_key) THEN 900
    ELSE IF Contains(W_gpl, license_key) THEN 300
    ELSE 500

\* a lookup whose keyword rules test gpl before lgpl
LicenseLookupGplFirst(license_key) ==
    IF \E i \in 1..Len(LicenseKeys) : Contains(LicenseKeys[i], license_key)
    THEN LicenseScores[CHOOSE i \in 1..Len(LicenseKeys) :
            /\ Contains(LicenseKeys[i], license_key)
            /\ \A j \in 1..(i - 1) : ~Contains(LicenseKeys[j], license_key)]
    ELSE IF AnyIn({W_apache, W_mit, W_bsd}, license_key) THEN 900
    ELSE IF AnyIn({W_cc, W_creative}, license_key) THEN 700
    ELSE IF Contains(W_gpl, license_key) THEN 300
    ELSE IF Contains(W_lgpl, license_key) THEN 900
    ELSE 500

\* the score of a normalised license string: the first table key it contains,
\* then the keyword rules
LicenseLookup(license_key) ==
    IF \E i \in 1..Len(LicenseKeys) : Contains(LicenseKeys[i], license_key)
    THEN LicenseScores[CHOOSE i \in 1..Len(LicenseKeys) :
            /\ Contains(LicenseKeys[i], license_key)
            /\ \A j \in 1..(i - 1) : ~Contains(LicenseKeys[j], license_key)]
    ELSE IF AnyIn({W_apache, W_mit, W_bsd}, license_key) THEN 900
    ELSE IF AnyIn({W_cc, W_creative}, license_key) THEN 700
    ELSE IF Contains(W_lgpl, license_key) THEN 900
    ELSE IF Contains(W_gpl, license_key) THEN 300
    ELSE 500

\* a calculate that reads the README first and the metadata after it
LicenseCalculateReadmeFirst(mi, up) ==
    IF mi.isNone THEN LicenseDefault
    ELSE LET api  == IF "license" \in DOMAIN mi.api_data
                     THEN mi.api_data["license"] ELSE None
             text == _parse_license_from_readme(mi, up)
             info == IF Truthy(text) THEN text ELSE api
         IN IF ~Truthy(info) THEN 500
            ELSE LicenseLookup(Strip(Lower(info)))

LicenseCalculate(mi, up) ==
    IF mi.isNone THEN LicenseDefault
    ELSE LET api  == IF "license" \in DOMAIN mi.api_data
                     THEN mi.api_data["license"] ELSE None
             info == IF Truthy(api) THEN api
                     ELSE _parse_license_from_readme(mi, up)
         IN IF ~Truthy(info) THEN 500
            ELSE LicenseLookup(Strip(Lower(info)))

(***************************************************************************)
(* SizeMetric.  Sizes are fixed-point GB; a file size is kept in MiB.      *)
(***************************************************************************)
Hardware == {"raspberry_pi", "jetson_nano", "desktop_pc", "aws_server"}

hardware_limits ==
    [hw \in Hardware |->
        CASE hw = "raspberry_pi" -> 1000
          [] hw = "jetson_nano"  -> 4000
          [] hw = "desktop_pc"   -> 16000
          [] hw = "aws_server"   -> 64000]

MiBPerGB == 1024

SizeDefault == 2000

\* a JSON item that is no dict, or a size that is no number, raises
ItemRaises(items) ==
    \E i \in 1..Len(items) : ~items[i].dict \/ (items[i].has_size /\ ~items[i].size_ok)


ItemSize(item) == IF item.has_size THEN item.size ELSE 0

SizeFromName(name) ==
    LET n == Lower(name)
    IN IF AnyIn({W_7b, W_7_b}, n) THEN 13000
       ELSE IF AnyIn({W_13b, W_13_b}, n) THEN 26000
       ELSE IF AnyIn({W_70b, W_70_b}, n) THEN 140000
       ELSE IF AnyIn({W_3b, W_3_b}, n) THEN 6000
       ELSE IF AnyIn({W_1b, W_1_b}, n) THEN 2000
       ELSE IF Contains(W_small, n) THEN 500
       ELSE IF Contains(W_large, n) THEN 5000
       ELSE 2000

_estimate_model_size(mi, up) ==
    LET f == up.files
    IN IF mi.isNone \/ Fails(f) THEN SizeDefault
       ELSE IF f.status = 200 /\ ItemRaises(f.body.items) THEN SizeDefault
       ELSE LET total_size == IF f.status = 200 THEN SumOver(f.body.items, ItemSize) ELSE 0
            IN IF total_size > 0
               THEN (total_size * Scale) \div MiBPerGB
               ELSE SizeFromName(mi.name)

\* a scale whose steps leave their own limit out
SizeStepStrict(model_size_gb, limit) ==
    IF model_size_gb < Mul(limit, 500) THEN 1000
    ELSE IF model_size_gb < Mul(limit, 800) THEN 900
    ELSE IF model_size_gb < limit THEN 800
    ELSE IF model_size_gb < Mul(limit, 1500) THEN 600
    ELSE IF model_size_gb < Mul(limit, 2000) THEN 500
    ELSE IF model_size_gb < Mul(limit, 3000) THEN 400
    ELSE 300

SizeStep(model_size_gb, limit) ==
    IF model_size_gb <= Mul(limit, 500) THEN 1000
    ELSE IF model_size_gb <= Mul(limit, 800) THEN 900
    ELSE IF model_size_gb <= limit THEN 800
    ELSE IF model_size_gb <= Mul(limit, 1500) THEN 600
    ELSE IF model_size_gb <= Mul(limit, 2000) THEN 500
    ELSE IF model_size_gb <= Mul(limit, 3000) THEN 400
    ELSE 300

SizeCalculate(mi, up) ==
    [hw \in Hardware |-> SizeStep(_estimate_model_size(mi, up), hardware_limits[hw])]

(***************************************************************************)
(* RampUpMetric                                                            *)
(***************************************************************************)
HasAny(body, phrases) == body.terms \cap phrases # {}

_analyze_readme(mi, up) ==
    LET r == up.readme
    IN IF Fails(r) \/ r.status # 200 THEN 400
       ELSE Min(1000,
              (IF HasAny(r.body, {"usage", "how to use"}) THEN 300 ELSE 0)
            + (IF HasAny(r.body, {"example", "code"}) THEN 200 ELSE 0)
            + (IF HasAny(r.body, {"install", "pip install"}) THEN 200 ELSE 0)
            + (IF HasAny(r.body, {"license"}) THEN 100 ELSE 0)
            + (IF HasAny(r.body, {"dataset", "training"}) THEN 100 ELSE 0)
            + (IF r.body.long THEN 100 ELSE 0))

NonDict(items) == \E i \in 1..Len(items) : ~items[i].dict

\* example_files, counted in halves
RampUpExampleHalves(item) ==
    IF ~item.has_path THEN 0
    ELSE LET filename == Lower(item.path)
         IN IF AnyIn({W_example, W_demo, W_sample, W_test}, filename) THEN 2
            ELSE IF /\ \E x \in {X_py, X_ipynb, X_md} : EndsWith(filename, x)
                    /\ ~Contains(W_readme, filename)
                 THEN 1
            ELSE 0


_check_examples(mi, up) ==
    LET f == up.files
    IN IF Fails(f) \/ f.status # 200 THEN 400
       ELSE IF NonDict(f.body.items) THEN 400
       ELSE Min(1000, SumOver(f.body.items, RampUpExampleHalves) * 150)

_analyze_model_card(mi) ==
    Min(1000,
          (IF mi.pipeline_tag THEN 200 ELSE 0)
        + (IF mi.library_name THEN 200 ELSE 0)
        + (IF Len(mi.tags) > 0 THEN 200 ELSE 0)
        + (IF Len(mi.model_index) > 0 THEN 400 ELSE 0))

\* the fixed-point square root of the fixed-point x, for x <= Scale
Sqrt(x) == CHOOSE k \in 0..Scale : k * k <= x * Scale /\ (k + 1) * (k + 1) > x * Scale

\* min(1.0, (count / full) ** 0.5) if count > 0 else 0
Saturating(count, full) ==
    IF count <= 0 THEN 0
    ELSE IF count >= full THEN 1000
    ELSE Sqrt((count * Scale) \div full)

_calculate_popularity_score(mi) ==
    (Saturating(mi.downloads, 10000) + Saturating(mi.likes, 100)) \div 2

RampUpCalculate(mi, up) ==
    IF mi.isNone THEN 500
    ELSE Min(1000,
              (IF IsKnownModel(mi.name) THEN 700 ELSE 400)
            + Mul(_analyze_readme(mi, up), 400)
            + Mul(_check_examples(mi, up), 300)
            + Mul(_analyze_model_card(mi), 200)
            + Mul(_calculate_popularity_score(mi), 100))

(***************************************************************************)
(* BusFactorMetric                                                         *)
(***************************************************************************)
OrgScores == <<900, 900, 900, 900, 900, 800, 800, 800, 800, 700>>

\* a recency table whose third bucket is out of order
_check_recent_activity_uneven(mi) ==
    LET lm == mi.last_modified
    IN IF lm.kind = "none" THEN 500
       ELSE IF lm.kind = "bad" THEN 500
       ELSE IF lm.days <= 30 THEN 1000
       ELSE IF lm.days <= 90 THEN 800
       ELSE IF lm.days <= 180 THEN 900
       ELSE IF lm.days <= 365 THEN 400
       ELSE 200

_check_recent_activity(mi) ==
    LET lm == mi.last_modified
    IN IF lm.kind = "none" THEN 500
       ELSE IF lm.kind = "bad" THEN 500
       ELSE IF lm.days <= 30 THEN 1000
       ELSE IF lm.days <= 90 THEN 800
       ELSE IF lm.days <= 180 THEN 600
       ELSE IF lm.days <= 365 THEN 400
       ELSE 200

_analyze_maintainers(mi) ==
    IF ~Contains(<<"/">>, mi.name) THEN 500
    ELSE LET org_lower == Lower(TakeUntil(mi.name, {"/"}))
         IN IF \E i \in 1..Len(KnownOrgs) : Contains(KnownOrgs[i], org_lower)
            THEN OrgScores[CHOOSE i \in 1..Len(KnownOrgs) :
                    /\ Contains(KnownOrgs[i], org_lower)
                    /\ \A j \in 1..(i - 1) : ~Contains(KnownOrgs[j], org_lower)]
            ELSE 500

_assess_community(mi) ==
    IF mi.likes > 1000 \/ mi.downloads > 100000 THEN 1000
    ELSE IF mi.likes > 100 \/ mi.downloads > 10000 THEN 800
    ELSE IF mi.likes > 10 \/ mi.downloads > 1000 THEN 600
    ELSE IF mi.likes > 0 \/ mi.downloads > 0 THEN 400
    ELSE 400

BusFactorCalculate(mi) ==
    IF mi.isNone THEN 500
    ELSE Min(1000,
              (IF IsKnownModel(mi.name) THEN 600 ELSE 400)
            + Mul(_check_recent_activity(mi), 400)
            + Mul(_analyze_maintainers(mi), 300)
            + Mul(_assess_community(mi), 300))

(***************************************************************************)
(* PerformanceMetric                                                       *)
(***************************************************************************)
ResultMetrics(result) ==
    IF "metrics" \in DOMAIN result /\ result["metrics"] >= 0
    THEN Min(300, result["metrics"] * 100) ELSE 0

IndexEntryScore(entry) ==
      (IF "results" \in DOMAIN entry /\ Len(entry["results"]) > 0
       THEN 500 + SumOver(entry["results"], ResultMetrics) ELSE 0)
    + (IF "datasets" \in DOMAIN entry THEN 200 ELSE 0)

_analyze_model_index(mi) ==
    IF Len(mi.model_index) = 0 THEN 300
    ELSE Min(1000, SumOver(mi.model_index, IndexEntryScore))

BenchmarkTerms ==
    {"benchmark", "evaluation", "eval", "performance", "accuracy", "bleu", "rouge",
     "bert-score", "glue", "superglue", "hellaswag", "mmlu", "truthfulqa", "arc",
     "winogrande", "gsm8k"}

Found(body, phrases) == Cardinality(body.terms \cap phrases)

_analyze_readme_benchmarks(mi, up) ==
    LET r == up.readme
    IN IF Fails(r) \/ r.status # 200 THEN 300
       ELSE LET found_terms == Found(r.body, BenchmarkTerms)
            IN Min(1000,
                  (IF found_terms >= 5 THEN 800
                   ELSE IF found_terms >= 3 THEN 600
                   ELSE IF found_terms >= 1 THEN 300 ELSE 0)
                + Min(400, r.body.numbers * 100))

IsEvaluationTag(tag) ==
    \E i \in 1..Len(EvaluationTags) : Contains(EvaluationTags[i], Lower(tag))

_analyze_tags(mi) ==
    IF Len(mi.tags) = 0 THEN 300
    ELSE Min(1000, Max(300, Count(mi.tags, IsEvaluationTag) * 200))

\* the sum of the components without the final min(1.0, score)
PerformanceCalculateUnclamped(mi, up) ==
    IF mi.isNone THEN 500
    ELSE  (IF IsKnownModel(mi.name) THEN 500 ELSE 300)
        + Mul(_analyze_model_index(mi), 500)
        + Mul(_analyze_readme_benchmarks(mi, up), 300)
        + Mul(_analyze_tags(mi), 200)

PerformanceCalculate(mi, up) ==
    IF mi.isNone THEN 500
    ELSE Min(1000,
              (IF IsKnownModel(mi.name) THEN 500 ELSE 300)
            + Mul(_analyze_model_index(mi), 500)
            + Mul(_analyze_readme_benchmarks(mi, up), 300)
            + Mul(_analyze_tags(mi), 200))

(***************************************************************************)
(* DatasetCodeMetric                                                       *)
(***************************************************************************)
DatasetTerms ==
    {"dataset", "training data", "trained on", "data source", "corpus", "collection",
     "benchmark"}

HasDatasets(entry) == "datasets" \in DOMAIN entry /\ entry["datasets"] > 0

_check_dataset_info(mi, up) ==
    LET r == up.readme
        index_score == IF \E i \in 1..Len(mi.model_index) : HasDatasets(mi.model_index[i])
                       THEN 500 ELSE 0
    IN IF mi.isNone \/ Fails(r) THEN 400
       ELSE IF r.status # 200 THEN Min(1000, index_score)
       ELSE LET found_terms == Found(r.body, DatasetTerms)
            IN Min(1000,
                  index_score
                + (IF found_terms >= 3 THEN 400
                   ELSE IF found_terms >= 1 THEN 200 ELSE 0)
                + (IF HasAny(r.body, {"huggingface.co/datasets/"}) THEN 300 ELSE 0)
                + (IF r.body.samples_dc THEN 200 ELSE 0))

IsCodeFile(item) ==
    /\ item.has_path
    /\ \/ EndsWith(Lower(item.path), X_py)
       \/ /\ ~EndsWith(Lower(item.path), X_ipynb)
          /\ Lower(item.path) \in {F_training_args, F_run_sh, F_train_sh}

IsExampleFile(item) ==
    /\ item.has_path
    /\ \/ /\ EndsWith(Lower(item.path), X_py)
          /\ AnyIn({W_train, W_inference, W_run, W_example, W_demo}, Lower(item.path))
       \/ /\ ~EndsWith(Lower(item.path), X_py)
          /\ EndsWith(Lower(item.path), X_ipynb)

_check_code_availability(mi, up) ==
    LET f == up.files
        r == up.readme
        code_files    == IF f.status = 200 THEN Count(f.body.items, IsCodeFile) ELSE 0
        example_files == IF f.status = 200 THEN Count(f.body.items, IsExampleFile) ELSE 0
        files_score ==
              (IF code_files > 0 THEN 300 ELSE 0)
            + (IF example_files > 0 THEN 400 ELSE 0)
            + (IF code_files >= 3 THEN 200 ELSE 0)
        readme_score ==
            IF r.status # 200 THEN 0
            ELSE  (IF r.body.code_blocks >= 2 THEN 300
                   ELSE IF r.body.code_blocks >= 1 THEN 200 ELSE 0)
                + (IF r.body.raw \cap {"from transformers import", "import torch"} # {}
                   THEN 200 ELSE 0)
    IN IF mi.isNone \/ Fails(f) \/ Fails(r) THEN 400
       ELSE IF f.status = 200 /\ NonDict(f.body.items) THEN 400
       ELSE Min(1000, files_score + readme_score)

DatasetCodeCalculate(mi, up) ==
    Min(1000, Mul(_check_dataset_info(mi, up), 600)
            + Mul(_check_code_availability(mi, up), 400))

(***************************************************************************)
(* DatasetQualityMetric                                                    *)
(***************************************************************************)
DatasetQualityTerms ==
    {"data source", "data collection", "data cleaning", "preprocessing", "filtering",
     "deduplication", "quality control", "curation", "annotation", "labeling",
     "validation"}

PreprocessingTerms ==
    {"tokenization", "normalization", "cleaning", "filtering", "preprocessing",
     "preparation", "augmentation", "transformation"}

QualityDatasets ==
    << <<"common crawl", 700>>, <<"c4", 800>>, <<"pile", 800>>, <<"openwebtext", 700>>,
       <<"wikipedia", 900>>, <<"books3", 600>>, <<"arxiv", 800>>, <<"pubmed", 800>>,
       <<"github", 700>>, <<"stackexchange", 700>>, <<"refinedweb", 800>>,
       <<"dolma", 800>>, <<"redpajama", 700>> >>

_check_dataset_documentation(mi, up) ==
    LET r == up.readme
    IN IF mi.isNone \/ Fails(r) \/ r.status # 200 THEN 400
       ELSE Min(1000,
                  Min(600, Found(r.body, DatasetQualityTerms) * 100)
                + (IF r.body.samples_dq THEN 200 ELSE 0)
                + (IF HasAny(r.body, {"composition", "distribution", "breakdown",
                                      "statistics"}) THEN 200 ELSE 0))

_check_preprocessing_info(mi, up) ==
    LET r == up.readme
    IN IF mi.isNone \/ Fails(r) \/ r.status # 200 THEN 400
       ELSE Max(400, Min(1000,
                  Min(800, Found(r.body, PreprocessingTerms) * 150)
                + (IF HasAny(r.body, {"spacy", "nltk", "tokenizer", "bpe",
                                      "sentencepiece"}) THEN 200 ELSE 0)))

KnownDatasetScore(body, d) == IF d[1] \in body.terms THEN d[2] ELSE 0

_check_known_datasets(mi, up) ==
    LET r == up.readme
    IN IF mi.isNone \/ Fails(r) \/ r.status # 200 THEN 300
       ELSE LET max_score ==
                    CHOOSE m \in {0} \cup {KnownDatasetScore(r.body, QualityDatasets[i]) :
                                              i \in 1..Len(QualityDatasets)} :
                        \A i \in 1..Len(QualityDatasets) :
                            m >= KnownDatasetScore(r.body, QualityDatasets[i])
            IN IF max_score = 0
               THEN (IF HasAny(r.body, {"curated", "filtered", "high-quality", "clean"})
                     THEN 500 ELSE 300)
               ELSE max_score

DatasetQualityCalculate(mi, up) ==
    Min(1000, Max(500,
          400
        + Mul(_check_dataset_documentation(mi, up), 300)
        + Mul(_check_preprocessing_info(mi, up), 200)
        + Mul(_check_known_datasets(mi, up), 200)))

(***************************************************************************)
(* CodeQualityMetric                                                       *)
(***************************************************************************)
\* os.path.basename
RECURSIVE Basename(_)
Basename(path) ==
    IF Contains(<<"/">>, path)
    THEN Basename(SubSeq(path, IndexOf(<<"/">>, path) + 1, Len(path)))
    ELSE path

\* the keys of standard_files; the file name is lower-cased before the lookup
IsStandardFile(item) ==
    /\ item.has_path
    /\ \E i \in 1..Len(StandardFiles) : StandardFiles[i] = Lower(Basename(item.path))

IsPythonFile(item) == item.has_path /\ EndsWith(item.path, X_py)

IsConfigFile(item) ==
    /\ item.has_path
    /\ ~EndsWith(item.path, X_py)
    /\ \E x \in {X_json, X_yaml, X_yml, X_toml} : EndsWith(item.path, x)

_check_code_structure(mi, up) ==
    LET f == up.files
    IN IF Fails(f) \/ f.status # 200 THEN 400
       ELSE IF NonDict(f.body.items) THEN 400
       ELSE LET python_files == Count(f.body.items, IsPythonFile)
                config_files == Count(f.body.items, IsConfigFile)
            IN Min(1000,
                  Count(f.body.items, IsStandardFile) * 100
                + (IF python_files > 0 THEN 200 ELSE 0)
                + (IF python_files >= 3 THEN 200 ELSE 0)
                + (IF config_files > 0 THEN 100 ELSE 0))

\* the source files sampled: the first three Python files of the listing, file i
\* being answered by up.srcs[i]
SampledFiles(up) == 1..Min(3, Count(up.files.body.items, IsPythonFile))

_check_code_documentation(mi, up) ==
    LET f == up.files
    IN IF Fails(f) \/ f.status # 200 THEN 400
       ELSE IF NonDict(f.body.items) THEN 400
       ELSE IF SampledFiles(up) = {} THEN 400
       ELSE LET checked ==
                    {i \in SampledFiles(up) : up.srcs[i].k = "resp" /\ up.srcs[i].status = 200}
                documented == {i \in checked : up.srcs[i].doc_indicators >= 2}
            IN IF checked = {} THEN 400
               ELSE Max(400, (Cardinality(documented) * Scale) \div Cardinality(checked))

QualityIndicators ==
    {"lint", "flake8", "black", "type hint", "mypy", "pytest", "test", "ci/cd",
     "github action", "pre-commit"}

_check_best_practices(mi, up) ==
    LET r == up.readme
    IN IF Fails(r) THEN 400
       ELSE IF r.status # 200 THEN 0
       ELSE Min(1000,
                  Min(500, Found(r.body, QualityIndicators) * 100)
                + (IF HasAny(r.body, {"pip install", "requirements.txt"}) THEN 200 ELSE 0)
                + (IF /\ HasAny(r.body, {"import"})
                      /\ HasAny(r.body, {"transformers", "torch"}) THEN 200 ELSE 0)
                + (IF HasAny(r.body, {"license"}) THEN 100 ELSE 0))

CodeQualityCalculate(mi, up) ==
    IF mi.isNone THEN 500
    ELSE Min(1000,
              (IF IsKnownModel(mi.name) THEN 500 ELSE 300)
            + Mul(_check_code_structure(mi, up), 400)
            + Mul(_check_code_documentation(mi, up), 300)
            + Mul(_check_best_practices(mi, up), 300))

(***************************************************************************)
(* MetricsCalculator.  src/metrics/calculator.py is not among the sources; *)
(* the calculator is written from the specification (4.10) and from what   *)
(* rate_model and the calculator tests read of its result: the eight       *)
(* scores, an integer latency in milliseconds for each, net_score,         *)
(* net_score_latency, name and category.  The weights are fixed, sum to 1  *)
(* and put license and the worst size score first.                         *)
(***************************************************************************)
Weights ==
    [license |-> 200, size_score |-> 200, ramp_up_time |-> 120, bus_factor |-> 120,
     performance_claims |-> 120, dataset_and_code_score |-> 80, dataset_quality |-> 80,
     code_quality |-> 80]

MinOf(S) == CHOOSE m \in S : \A x \in S : m <= x

\* the weighted combination of the sub-scores, the size score by its minimum
_calculate_net_score(metrics) ==
    Max(0, Min(1000,
          Mul(Weights.license, metrics.license)
        + Mul(Weights.size_score, MinOf({metrics.size_score[hw] : hw \in Hardware}))
        + Mul(Weights.ramp_up_time, metrics.ramp_up_time)
        + Mul(Weights.bus_factor, metrics.bus_factor)
        + Mul(Weights.performance_claims, metrics.performance_claims)
        + Mul(Weights.dataset_and_code_score, metrics.dataset_and_code_score)
        + Mul(Weights.dataset_quality, metrics.dataset_quality)
        + Mul(Weights.code_quality, metrics.code_quality)))

\* the eight scores of one descriptor against one state of the metadata provider
Scores(mi, up) ==
    [license                |-> LicenseCalculate(mi, up),
     size_score             |-> SizeCalculate(mi, up),
     ramp_up_time           |-> RampUpCalculate(mi, up),
     bus_factor             |-> BusFactorCalculate(mi),
     performance_claims     |-> PerformanceCalculate(mi, up),
     dataset_and_code_score |-> DatasetCodeCalculate(mi, up),
     dataset_quality        |-> DatasetQualityCalculate(mi, up),
     code_quality           |-> CodeQualityCalculate(mi, up)]

\* calculate_all_metrics: every scorer is timed (an int of milliseconds, here ms for
\* each of them); net_score_latency is the whole computation
AllMetrics(name, s, ms) ==
       [name                           |-> name,
        category                       |-> "MODEL",
        net_score                      |-> _calculate_net_score(s),
        net_score_latency              |-> 8 * ms,
        ramp_up_time                   |-> s.ramp_up_time,
        ramp_up_time_latency           |-> ms,
        bus_factor                     |-> s.bus_factor,
        bus_factor_latency             |-> ms,
        performance_claims             |-> s.performance_claims,
        performance_claims_latency     |-> ms,
        license                        |-> s.license,
        license_latency                |-> ms,
        dataset_and_code_score         |-> s.dataset_and_code_score,
        dataset_and_code_score_latency |-> ms,
        dataset_quality                |-> s.dataset_quality,
        dataset_quality_latency        |-> ms,
        code_quality                   |-> s.code_quality,
        code_quality_latency           |-> ms,
        size_score                     |-> s.size_score,
        size_score_latency             |-> ms]

calculate_all_metrics(mi, up, ms) == AllMetrics(mi.name, Scores(mi, up), ms)

(***************************************************************************)
(* The metadata provider, as rate_model meets it                           *)
(***************************************************************************)
NoReadme ==
    [bad |-> FALSE, terms |-> {}, raw |-> {}, long |-> FALSE, code_blocks |-> 0,
     numbers |-> 0, samples_dc |-> FALSE, samples_dq |-> FALSE, sec |-> None,
     line |-> None]

NoFiles == [bad |-> FALSE, items |-> <<>>]

FetchExc(body) == [k |-> "exc", status |-> 0, body |-> body]

Resp(status, body) == [k |-> "resp", status |-> status, body |-> body]

SrcExc == [k |-> "exc", status |-> 0, doc_indicators |-> 0]

SrcResp(status, n) == [k |-> "resp", status |-> status, doc_indicators |-> n]

P_train_py == <<"t","r","a","i","n",".","p","y">>
P_config_json == <<"c","o","n","f","i","g",".","j","s","o","n">>
P_README_md == <<"R","E","A","D","M","E",".","m","d">>
P_demo_ipynb == <<"d","e","m","o",".","i","p","y","n","b">>
P_src_model_py == <<"s","r","c","/","m","o","d","e","l",".","p","y">>
P_weights_bin == <<"w","e","i","g","h","t","s",".","b","i","n">>

File(path, size) ==
    [dict |-> TRUE, has_path |-> TRUE, path |-> path, has_size |-> TRUE,
     size |-> size, size_ok |-> TRUE]

L_apache_text == <<"A","p","a","c","h","e"," ","L","i","c","e","n","s","e"," ","2",".","0">>

\* a model card with a License section, usage and evaluation text
ReadmeCard ==
    [NoReadme EXCEPT
        !.terms = {"usage", "example", "install", "pip install", "license", "dataset",
                   "benchmark", "evaluation", "eval", "accuracy", "import",
                   "transformers", "tokenizer", "test"},
        !.raw = {"from transformers import"}, !.long = TRUE, !.code_blocks = 2,
        !.numbers = 2, !.sec = L_apache_text]

FilesRepo ==
    [NoFiles EXCEPT
        !.items = << File(P_config_json, 1), File(P_train_py, 1),
                     File(P_weights_bin, 420) >>]

\* the provider answers every request / answers 404 / cannot be reached
UpOk ==
    [readme |-> Resp(200, ReadmeCard), files |-> Resp(200, FilesRepo),
     srcs |-> <<SrcResp(200, 2), SrcResp(200, 2), SrcResp(200, 2)>>]

UpNotFound ==
    [readme |-> Resp(404, NoReadme), files |-> Resp(404, NoFiles),
     srcs |-> <<SrcResp(404, 0), SrcResp(404, 0), SrcResp(404, 0)>>]

UpDown ==
    [readme |-> FetchExc(NoReadme), files |-> FetchExc(NoFiles),
     srcs |-> <<SrcExc, SrcExc, SrcExc>>]

NoDate == [kind |-> "none", days |-> 0]

\* the descriptor rate_model builds from a stored artifact
RateModelInfo(name) ==
    [isNone |-> FALSE, name |-> name, api_data |-> NoDict, model_index |-> <<>>,
     tags |-> <<>>, likes |-> 0, downloads |-> 0, last_modified |-> NoDate,
     pipeline_tag |-> FALSE, library_name |-> FALSE]

(***************************************************************************)
(* MockTable: a table is a function from keys to items                     *)
(***************************************************************************)
put_item(table, key, item) ==
    [k \in DOMAIN table \cup {key} |-> IF k = key THEN item ELSE table[k]]

has_item(table, key) == key \in DOMAIN table

\* update_item writes the timestamp updated_at and nothing else; timestamps are not kept
update_item(table, key) == [k \in DOMAIN table |-> table[k]]

delete_item(table, key) == [k \in DOMAIN table \ {key} |-> table[k]]

(***************************************************************************)
(* rate_model: the response model and its assembly                         *)
(***************************************************************************)
ScoreFields ==
    {"net_score", "ramp_up_time", "bus_factor", "performance_claims", "license",
     "dataset_and_code_score", "dataset_quality", "code_quality", "reproducibility",
     "reviewedness", "tree_score"}

LatencyFields ==
    {"net_score_latency", "ramp_up_time_latency", "bus_factor_latency",
     "performance_claims_latency", "license_latency", "dataset_and_code_score_latency",
     "dataset_quality_latency", "code_quality_latency", "reproducibility_latency",
     "reviewedness_latency", "tree_score_latency", "size_score_latency"}

ModelRatingFields == {"name", "category", "size_score"} \cup ScoreFields \cup LatencyFields

\* dict.get(key, default)
Get(d, key, default) == IF key \in DOMAIN d THEN d[key] ELSE default

\* a Python int read into a float field
Float(n) == n * Scale

SizeScore(d) == [hw \in Hardware |-> Get(d, hw, 0)]

\* an assembly that asks the metrics for the key "netscore"
AssembleRatingWrongKey(artifact, metrics, total_latency) ==
    [f \in ModelRatingFields |->
        CASE f = "name" -> artifact.name
          [] f = "category" -> "MODEL"
          [] f = "net_score" -> Get(metrics, "netscore", 0)
          [] f = "net_score_latency" -> total_latency
          [] f = "size_score" -> SizeScore(Get(metrics, "size_score", NoDict))
          [] f \in LatencyFields \ {"net_score_latency"} ->
                IF f \in DOMAIN metrics THEN Float(metrics[f]) ELSE 0
          [] OTHER -> Get(metrics, f, 0)]

\* ModelRating(...) as rate_model fills it from the metrics and the elapsed seconds
AssembleRating(artifact, metrics, total_latency) ==
    [f \in ModelRatingFields |->
        CASE f = "name" -> artifact.name
          [] f = "category" -> "MODEL"
          [] f = "net_score_latency" -> total_latency
          [] f = "size_score" -> SizeScore(Get(metrics, "size_score", NoDict))
          [] f \in LatencyFields \ {"net_score_latency"} ->
                IF f \in DOMAIN metrics THEN Float(metrics[f]) ELSE 0
          [] OTHER -> Get(metrics, f, 0)]

\* a reading of the item that turns the latencies into whole numbers
ModelRatingWholeLatencies(item) ==
    [f \in ModelRatingFields |->
        IF f \in LatencyFields THEN (item[f] \div Scale) * Scale ELSE item[f]]

\* ModelRating(**item): the fields of the model are read, the others ignored
ModelRating(item) == [f \in ModelRatingFields |-> item[f]]

\* an item whose latencies are stored as whole numbers
RatingItemWholeLatencies(rating, id) ==
    [f \in ModelRatingFields \cup {"artifact_id"} |->
        IF f = "artifact_id" THEN id
        ELSE IF f \in LatencyFields THEN (rating[f] \div Scale) * Scale
        ELSE rating[f]]

\* rating.model_dump() with the key of the cache added
RatingItem(rating, id) ==
    [f \in ModelRatingFields \cup {"artifact_id"} |->
        IF f = "artifact_id" THEN id ELSE rating[f]]

D_403 == "Authentication failed due to invalid or missing AuthenticationToken"
D_404 == "Artifact does not exist"
D_400_type == "Rating is only supported for model artifacts"
D_400_url == "Invalid model URL or unable to parse"
D_500 == "The artifact rating system encountered an error: "

\* what a failing table call raises, by str(e)
TableErrors == {"EndpointConnectionError"}

Error(status, detail, cause) ==
    [status |-> status, kind |-> "error", detail |-> detail, cause |-> cause]

Rated(kind, rating) == [status |-> 200, kind |-> kind, rating |-> rating]

\* seconds of time.time() and the calculator's milliseconds of one computation
Timings == {[ms |-> 5, total |-> 41], [ms |-> 125, total |-> 1000]}

\* the metadata provider as the rating requests meet it
Upstreams == {UpOk}

(***************************************************************************)
(* The registry and the rating requests in flight                          *)
(***************************************************************************)
MaxArtifacts == 2

MaxRequests == 2

Ids == 1..MaxArtifacts

Slots == 1..MaxRequests

U_MODEL ==
    S_https \o S_hf \o <<"t","e","s","t","/","7","b","-","m","o","d","e","l">>

U_CODE == S_https \o S_github \o <<"o","/","r">>

U_BAD == <<"f","t","p",":","/","/","x">>

ArtifactTypes == {"model", "dataset", "code"}

UrlInputs == {U_MODEL, U_CODE, U_BAD}

\* the registrations tried: artifact_type and source URL
CreateInputs ==
    {<<"model", U_MODEL>>, <<"model", U_CODE>>, <<"dataset", U_MODEL>>,
     <<"tool", U_MODEL>>, <<"model", U_BAD>>}

VARIABLES
    artifacts,  \* the Artifacts table: id -> item
    ratings,    \* the Ratings table (the rating cache): artifact_id -> item
    audit,      \* the Audit table, its entries up to artifact_id and action
    nextId,     \* how many ids generate_artifact_id has issued
    reqs,       \* the rate_model requests in flight, by slot
    probe       \* a scorer under test: its input and its last result

vars == <<artifacts, ratings, audit, nextId, reqs, probe>>

\* the parser and the calculator of the rating routes, tabulated over the inputs in use
url_parser == [url \in UrlInputs |-> parse_url(url)]

StoredNames ==
    {canonicalize_name(url_parser[url].name) : url \in {u \in UrlInputs : url_parser[u].ok}}

metrics_calculator ==
    [name \in StoredNames |-> [up \in Upstreams |-> [ms \in {t.ms : t \in Timings} |->
        calculate_all_metrics(RateModelInfo(name), up, ms)]]]

NoArtifact == [name |-> <<>>, type |-> "", url |-> <<>>]

NoResponse == [status |-> 0, kind |-> "none"]

Idle ==
    [pc |-> "idle", id |-> 0, artifact |-> NoArtifact, rating |-> NoDict, calls |-> 0,
     resp |-> NoResponse]

NoProbe == [on |-> FALSE]

\* a request ends: its response is what the caller gets
Done(req, resp) == [req EXCEPT !.pc = "done", !.resp = resp]

log_audit_action(artifact_id, action) ==
    audit' = audit \cup {[artifact_id |-> artifact_id, action |-> action]}

InFlight(r) == reqs[r].pc \in {"cache", "score", "write"}

\* a lookup that answers from the cache before it reads the Artifacts table
RateStartCacheFirst(r, id, token) ==
    /\ reqs[r].pc = "idle"
    /\ LET req == [Idle EXCEPT !.id = id]
       IN reqs' = [reqs EXCEPT ![r] =
            IF ~token THEN Done(req, Error(403, D_403, "auth"))
            ELSE IF has_item(ratings, id)
                 THEN Done(req, Rated("hit", ModelRating(ratings[id])))
            ELSE IF ~has_item(artifacts, id) THEN Done(req, Error(404, D_404, "missing"))
            ELSE IF artifacts[id].type # "model"
                 THEN Done(req, Error(400, D_400_type, "type"))
            ELSE [req EXCEPT !.pc = "cache", !.artifact = artifacts[id]]]
    /\ UNCHANGED <<artifacts, ratings, audit, nextId, probe>>

\* rate_model up to its read of the Artifacts table
RateStart(r, id, token) ==
    /\ reqs[r].pc = "idle"
    /\ LET req == [Idle EXCEPT !.id = id]
       IN reqs' = [reqs EXCEPT ![r] =
            IF ~token THEN Done(req, Error(403, D_403, "auth"))
            ELSE IF ~has_item(artifacts, id) THEN Done(req, Error(404, D_404, "missing"))
            ELSE IF artifacts[id].type # "model"
                 THEN Done(req, Error(400, D_400_type, "type"))
            ELSE [req EXCEPT !.pc = "cache", !.artifact = artifacts[id]]]
    /\ UNCHANGED <<artifacts, ratings, audit, nextId, probe>>

\* the read of the Artifacts table raises
RateArtifactsUnavailable(r, id, e) ==
    /\ reqs[r].pc = "idle"
    /\ reqs' = [reqs EXCEPT ![r] =
            Done([Idle EXCEPT !.id = id], Error(500, <<D_500, e>>, "artifacts.get_item"))]
    /\ UNCHANGED <<artifacts, ratings, audit, nextId, probe>>

\* a read of the cache that never finds an entry
RateCacheReadMiss(r) ==
    /\ reqs[r].pc = "cache"
    /\ reqs' = [reqs EXCEPT ![r] = [reqs[r] EXCEPT !.pc = "score"]]
    /\ UNCHANGED <<artifacts, ratings, audit, nextId, probe>>

\* the read of the cache: a hit is returned as it is stored
RateCacheRead(r) ==
    /\ reqs[r].pc = "cache"
    /\ reqs' = [reqs EXCEPT ![r] =
            IF has_item(ratings, reqs[r].id)
            THEN Done(reqs[r], Rated("hit", ModelRating(ratings[reqs[r].id])))
            ELSE [reqs[r] EXCEPT !.pc = "score"]]
    /\ UNCHANGED <<artifacts, ratings, audit, nextId, probe>>

RateCacheReadUnavailable(r, e) ==
    /\ reqs[r].pc = "cache"
    /\ reqs' = [reqs EXCEPT ![r] =
            Done(reqs[r], Error(500, <<D_500, e>>, "ratings.get_item"))]
    /\ UNCHANGED <<artifacts, ratings, audit, nextId, probe>>

\* the URL is parsed, the scorers run and the ModelRating is assembled
RateScore(r, up, t) ==
    /\ reqs[r].pc = "score"
    /\ LET artifact == reqs[r].artifact
           parsed == url_parser[artifact.url]
           metrics == metrics_calculator[artifact.name][up][t.ms]
       IN reqs' = [reqs EXCEPT ![r] =
            IF ~parsed.ok \/ parsed.type # "model"
            THEN Done(reqs[r], Error(400, D_400_url, "url"))
            ELSE [reqs[r] EXCEPT !.pc = "write", !.calls = 1,
                                 !.rating = AssembleRating(artifact, metrics, t.total)]]
    /\ UNCHANGED <<artifacts, ratings, audit, nextId, probe>>

\* the rating is put in the cache and returned
RateCacheWrite(r) ==
    /\ reqs[r].pc = "write"
    /\ ratings' = put_item(ratings, reqs[r].id, RatingItem(reqs[r].rating, reqs[r].id))
    /\ reqs' = [reqs EXCEPT ![r] = Done(reqs[r], Rated("fresh", reqs[r].rating))]
    /\ UNCHANGED <<artifacts, audit, nextId, probe>>

\* a write that reaches the table although the call raises
RateCacheWriteLost(r, e) ==
    /\ reqs[r].pc = "write"
    /\ ratings' = put_item(ratings, reqs[r].id, RatingItem(reqs[r].rating, reqs[r].id))
    /\ reqs' = [reqs EXCEPT ![r] =
            Done(reqs[r], Error(500, <<D_500, e>>, "ratings.put_item"))]
    /\ UNCHANGED <<artifacts, audit, nextId, probe>>

RateCacheWriteUnavailable(r, e) ==
    /\ reqs[r].pc = "write"
    /\ reqs' = [reqs EXCEPT ![r] =
            Done(reqs[r], Error(500, <<D_500, e>>, "ratings.put_item"))]
    /\ UNCHANGED <<artifacts, ratings, audit, nextId, probe>>

\* the caller has its response; the slot serves the next request
RateReturn(r) ==
    /\ reqs[r].pc = "done"
    /\ reqs' = [reqs EXCEPT ![r] = Idle]
    /\ UNCHANGED <<artifacts, ratings, audit, nextId, probe>>

generate_artifact_id == nextId + 1

create_artifact(artifact_type, url) ==
    /\ nextId < MaxArtifacts
    /\ LET parsed == url_parser[url]
           artifact_id == generate_artifact_id
       IN IF artifact_type \notin ArtifactTypes \/ ~parsed.ok
          THEN UNCHANGED <<artifacts, audit, nextId>>
          ELSE /\ artifacts' = put_item(artifacts, artifact_id,
                        [name |-> canonicalize_name(parsed.name), type |-> artifact_type,
                         url |-> url])
               /\ nextId' = artifact_id
               /\ log_audit_action(artifact_id, "CREATE")
    /\ UNCHANGED <<ratings, reqs, probe>>

update_artifact(id, body_id) ==
    /\ IF body_id # id \/ ~has_item(artifacts, id)
       THEN UNCHANGED <<artifacts, audit>>
       ELSE /\ artifacts' = update_item(artifacts, id)
            /\ log_audit_action(id, "UPDATE")
    /\ UNCHANGED <<ratings, nextId, reqs, probe>>

\* a delete that takes the rating of the artifact with it
delete_artifact_and_rating(id) ==
    /\ IF ~has_item(artifacts, id)
       THEN UNCHANGED <<artifacts, ratings, audit>>
       ELSE /\ artifacts' = delete_item(artifacts, id)
            /\ ratings' = delete_item(ratings, id)
            /\ log_audit_action(id, "DELETE")
    /\ UNCHANGED <<nextId, reqs, probe>>

delete_artifact(id) ==
    /\ IF ~has_item(artifacts, id)
       THEN UNCHANGED <<artifacts, audit>>
       ELSE /\ artifacts' = delete_item(artifacts, id)
            /\ log_audit_action(id, "DELETE")
    /\ UNCHANGED <<ratings, nextId, reqs, probe>>

reset_registry ==
    /\ artifacts' = NoDict
    /\ ratings' = NoDict
    /\ audit' = {}
    /\ UNCHANGED <<nextId, reqs, probe>>

Init ==
    /\ artifacts = NoDict
    /\ ratings = NoDict
    /\ audit = {}
    /\ nextId = 0
    /\ reqs = [r \in Slots |-> Idle]
    /\ probe = NoProbe

RateStep ==
    \E r \in Slots :
        \/ RateCacheRead(r)
        \/ \E e \in TableErrors : RateCacheReadUnavailable(r, e)
        \/ \E up \in Upstreams, t \in Timings : RateScore(r, up, t)
        \/ RateCacheWrite(r)
        \/ \E e \in TableErrors : RateCacheWriteUnavailable(r, e)
        \/ RateReturn(r)

RateArrives ==
    \E r \in Slots, id \in Ids :
        \/ \E token \in BOOLEAN : RateStart(r, id, token)
        \/ \E e \in TableErrors : RateArtifactsUnavailable(r, id, e)

RegistryStep ==
    \/ \E c \in CreateInputs : create_artifact(c[1], c[2])
    \/ \E id \in Ids, body_id \in Ids : update_artifact(id, body_id)
    \/ \E id \in Ids : delete_artifact(id)
    \/ reset_registry

\* requests are served concurrently: their table calls interleave
Next == RateStep \/ RateArrives \/ RegistryStep

Spec == Init /\ [][Next]_vars

\* requests are served one at a time: a handler starts when none is in flight
Quiet == \A r \in Slots : ~InFlight(r)

NextSeq == RateStep \/ (Quiet /\ RateArrives) \/ (Quiet /\ RegistryStep)

SpecSeq == Init /\ [][NextSeq]_vars

(***************************************************************************)
(* The scorers on their own: a descriptor and a state of the metadata      *)
(* provider are drawn, and each scorer is run on them                      *)
(***************************************************************************)
N_7b == <<"t","e","s","t","/","7","b","-","m","o","d","e","l">>
N_bert == <<"g","o","o","g","l","e","/","b","e","r","t">>
N_plain == <<"n","o","b","o","d","y">>
L_mit == <<" ","M","I","T"," ">>
L_gpl == <<"g","p","l","-","3",".","0">>
T_eval == <<"E","v","a","l","u","a","t","i","o","n">>
T_other == <<"p","y","t","o","r","c","h">>

D_none == [RateModelInfo(<<>>) EXCEPT !.isNone = TRUE]

D_bare == RateModelInfo(N_7b)

D_rich ==
    [RateModelInfo(N_bert) EXCEPT
        !.api_data = [k \in {"license"} |-> L_mit],
        !.model_index = << [k \in {"results", "datasets"} |->
                              IF k = "datasets" THEN 1
                              ELSE << [m \in {"metrics"} |-> 4], [m \in {"metrics"} |-> 4] >>],
                           [k \in {"results", "datasets"} |->
                              IF k = "datasets" THEN 2
                              ELSE << [m \in {"metrics"} |-> 4] >>] >>,
        !.tags = <<T_eval, T_other, T_eval, T_eval, T_eval, T_eval, T_eval>>,
        !.likes = 5000, !.downloads = 2000000,
        !.last_modified = [kind |-> "date", days |-> 10],
        !.pipeline_tag = TRUE, !.library_name = TRUE]

D_odd ==
    [RateModelInfo(N_plain) EXCEPT
        !.api_data = [k \in {"license"} |-> L_gpl],
        !.model_index = << [k \in {"datasets"} |-> -1], [k \in {} |-> 0] >>,
        !.tags = <<T_other>>, !.likes = 5, !.downloads = 90,
        !.last_modified = [kind |-> "bad", days |-> 0]]

D_old == [D_bare EXCEPT !.last_modified = [kind |-> "date", days |-> 400]]

ProbeModels == {D_none, D_bare, D_rich, D_odd, D_old}

\* a README that names everything the scorers look for
ReadmeFull ==
    [ReadmeCard EXCEPT
        !.terms = UNION {BenchmarkTerms, DatasetTerms, DatasetQualityTerms,
                         PreprocessingTerms, QualityIndicators,
                         {QualityDatasets[i][1] : i \in 1..Len(QualityDatasets)},
                         ReadmeCard.terms},
        !.code_blocks = 9, !.numbers = 9, !.samples_dc = TRUE, !.samples_dq = TRUE]

FilesFull ==
    [NoFiles EXCEPT
        !.items = << File(P_README_md, 1), File(P_config_json, 1), File(P_train_py, 1),
                     File(P_demo_ipynb, 1), File(P_src_model_py, 1),
                     File(P_weights_bin, 90000) >>]

\* a listing with an entry that is no object and one whose size is no number
FilesOdd ==
    [NoFiles EXCEPT
        !.items = << [File(P_train_py, 1) EXCEPT !.dict = FALSE],
                     [File(P_weights_bin, 1) EXCEPT !.size_ok = FALSE] >>]

FilesNoSize ==
    [NoFiles EXCEPT
        !.items = << [File(P_train_py, 0) EXCEPT !.has_size = FALSE],
                     [File(P_train_py, 0) EXCEPT !.has_path = FALSE, !.has_size = FALSE] >>]

Unreadable(body) == [body EXCEPT !.bad = TRUE]

UpFull ==
    [readme |-> Resp(200, ReadmeFull), files |-> Resp(200, FilesFull),
     srcs |-> <<SrcResp(200, 3), SrcExc, SrcResp(200, 0)>>]

UpEmpty ==
    [readme |-> Resp(200, NoReadme), files |-> Resp(200, NoFiles),
     srcs |-> <<SrcExc, SrcExc, SrcExc>>]

UpMalformed ==
    [readme |-> Resp(200, Unreadable(NoReadme)), files |-> Resp(200, Unreadable(NoFiles)),
     srcs |-> <<SrcExc, SrcExc, SrcExc>>]

UpOddFiles ==
    [readme |-> Resp(500, NoReadme), files |-> Resp(200, FilesOdd),
     srcs |-> <<SrcResp(404, 0), SrcResp(404, 0), SrcResp(404, 0)>>]

UpNoSizes ==
    [readme |-> FetchExc(NoReadme), files |-> Resp(200, FilesNoSize),
     srcs |-> <<SrcResp(200, 1), SrcResp(500, 0), SrcExc>>]

UpReadmeOnly ==
    [readme |-> Resp(200, ReadmeCard), files |-> Resp(404, NoFiles),
     srcs |-> <<SrcExc, SrcExc, SrcExc>>]

UpFilesOnly ==
    [readme |-> Resp(404, NoReadme), files |-> Resp(200, FilesRepo),
     srcs |-> <<SrcResp(200, 2), SrcResp(200, 2), SrcResp(200, 2)>>]

ProbeUpstreams ==
    {UpOk, UpFull, UpEmpty, UpNotFound, UpDown, UpMalformed, UpOddFiles, UpNoSizes,
     UpReadmeOnly, UpFilesOnly}

Scorers ==
    {"license", "size_score", "ramp_up_time", "bus_factor", "performance_claims",
     "dataset_and_code_score", "dataset_quality", "code_quality"}

Probe(mi, up) == [on |-> TRUE, mi |-> mi, up |-> up, scorer |-> "none", out |-> 0]

Ran(scorer, out) == [probe EXCEPT !.scorer = scorer, !.out = out]

RunLicense ==
    /\ probe.on
    /\ probe' = Ran("license", LicenseCalculate(probe.mi, probe.up))
    /\ UNCHANGED <<artifacts, ratings, audit, nextId, reqs>>

RunSize ==
    /\ probe.on
    /\ probe' = Ran("size_score", SizeCalculate(probe.mi, probe.up))
    /\ UNCHANGED <<artifacts, ratings, audit, nextId, reqs>>

RunRampUp ==
    /\ probe.on
    /\ probe' = Ran("ramp_up_time", RampUpCalculate(probe.mi, probe.up))
    /\ UNCHANGED <<artifacts, ratings, audit, nextId, reqs>>

RunBusFactor ==
    /\ probe.on
    /\ probe' = Ran("bus_factor", BusFactorCalculate(probe.mi))
    /\ UNCHANGED <<artifacts, ratings, audit, nextId, reqs>>

RunPerformance ==
    /\ probe.on
    /\ probe' = Ran("performance_claims", PerformanceCalculate(probe.mi, probe.up))
    /\ UNCHANGED <<artifacts, ratings, audit, nextId, reqs>>

RunDatasetCode ==
    /\ probe.on
    /\ probe' = Ran("dataset_and_code_score", DatasetCodeCalculate(probe.mi, probe.up))
    /\ UNCHANGED <<artifacts, ratings, audit, nextId, reqs>>

RunDatasetQuality ==
    /\ probe.on
    /\ probe' = Ran("dataset_quality", DatasetQualityCalculate(probe.mi, probe.up))
    /\ UNCHANGED <<artifacts, ratings, audit, nextId, reqs>>

RunCodeQuality ==
    /\ probe.on
    /\ probe' = Ran("code_quality", CodeQualityCalculate(probe.mi, probe.up))
    /\ UNCHANGED <<artifacts, ratings, audit, nextId, reqs>>

InitScorer ==
    /\ artifacts = NoDict
    /\ ratings = NoDict
    /\ audit = {}
    /\ nextId = 0
    /\ reqs = [r \in Slots |-> Idle]
    /\ \E mi \in ProbeModels, up \in ProbeUpstreams : probe = Probe(mi, up)

NextScorer ==
    \/ RunLicense
    \/ RunSize
    \/ RunRampUp
    \/ RunBusFactor
    \/ RunPerformance
    \/ RunDatasetCode
    \/ RunDatasetQuality
    \/ RunCodeQuality

SpecScorer == InitScorer /\ [][NextScorer]_vars

(***************************************************************************)
(* LicenseMetric on its own: the license value of the structured metadata  *)
(* and the answer to the README request are drawn, and calculate is run    *)
(***************************************************************************)
\* the identifiers of the license table as the metadata spells them
LicenseIdentifiers ==
    { <<"a","p","a","c","h","e","-","2",".","0">>,
      <<"m","i","t">>,
      <<"b","s","d","-","3","-","c","l","a","u","s","e">>,
      <<"b","s","d","-","2","-","c","l","a","u","s","e">>,
      <<"l","g","p","l","-","2",".","1">>,
      <<"l","g","p","l","-","3",".","0">>,
      <<"g","p","l","-","2",".","0">>,
      <<"g","p","l","-","3",".","0">>,
      <<"c","c","-","b","y","-","4",".","0">>,
      <<"c","c","-","b","y","-","s","a","-","4",".","0">>,
      <<"u","n","k","n","o","w","n">>,
      <<"o","t","h","e","r">> }

\* the same in capitals, with whitespace around them
LicenseIdentifiersSpelled ==
    { <<" ","A","P","A","C","H","E","-","2",".","0","\n">>,
      <<" ","M","I","T","\n">>,
      <<" ","B","S","D","-","3","-","C","L","A","U","S","E","\n">>,
      <<" ","B","S","D","-","2","-","C","L","A","U","S","E","\n">>,
      <<" ","L","G","P","L","-","2",".","1","\n">>,
      <<" ","L","G","P","L","-","3",".","0","\n">>,
      <<" ","G","P","L","-","2",".","0","\n">>,
      <<" ","G","P","L","-","3",".","0","\n">>,
      <<" ","C","C","-","B","Y","-","4",".","0","\n">>,
      <<" ","C","C","-","B","Y","-","S","A","-","4",".","0","\n">>,
      <<" ","U","N","K","N","O","W","N","\n">>,
      <<" ","O","T","H","E","R","\n">> }

\* license texts that are no identifier, the blank one and the empty one
LicenseTexts ==
    { <<"A","p","a","c","h","e"," ","L","i","c","e","n","s","e"," ","2",".","0">>,
      <<"B","S","D">>,
      <<"C","r","e","a","t","i","v","e"," ","C","o","m","m","o","n","s">>,
      <<"C","C","0">>,
      <<"G","N","U"," ","L","G","P","L">>,
      <<"G","P","L","v","3">>,
      <<"p","r","o","p","r","i","e","t","a","r","y">>,
      <<"L","G","P","L",","," ","C","r","e","a","t","i","v","e">>,
      <<" ">>,
      <<>> }

L_section == <<"T","h","i","s"," ","m","o","d","e","l"," ","i","s"," ","l","i","c","e","n","s","e","d"," ","u","n","d","e","r"," ","t","h","e"," ","A","p","a","c","h","e"," ","L","i","c","e","n","s","e"," ","2",".","0">>
L_lgpl_text == <<"G","N","U"," ","L","G","P","L">>
L_gpl_line == <<"g","p","l","-","3",".","0"," ">>
N_model == <<"t","e","s","t","/","m","o","d","e","l">>

\* the license values of the metadata: a value, no license key, or no descriptor
LicenseValues == LicenseIdentifiers \cup LicenseIdentifiersSpelled \cup LicenseTexts

LicenseModels ==
    {[RateModelInfo(N_model) EXCEPT !.api_data = [k \in {"license"} |-> v]] :
        v \in LicenseValues}
    \cup {RateModelInfo(N_model), D_none}

\* the README request fails, is refused, or answers with a card
LicenseReadmes ==
    { FetchExc(NoReadme),
      Resp(404, ReadmeCard),
      Resp(200, NoReadme),
      Resp(200, [NoReadme EXCEPT !.sec = L_section]),
      Resp(200, [NoReadme EXCEPT !.sec = L_lgpl_text]),
      Resp(200, [NoReadme EXCEPT !.line = L_gpl_line]) }

LicenseUpstreams == {[UpDown EXCEPT !.readme = r] : r \in LicenseReadmes}

\* the README requests one run of calculate makes
LicenseFetches(mi) ==
    IF mi.isNone THEN 0
    ELSE IF "license" \in DOMAIN mi.api_data /\ Truthy(mi.api_data["license"]) THEN 0
    ELSE 1

LicenseProbe(mi, up) ==
    [on |-> TRUE, mi |-> mi, up |-> up, scorer |-> "none", out |-> 0, fetches |-> 0]

RunLicenseMetric ==
    /\ probe.on
    /\ probe' = [probe EXCEPT !.scorer = "license",
                              !.out = LicenseCalculate(probe.mi, probe.up),
                              !.fetches = LicenseFetches(probe.mi)]
    /\ UNCHANGED <<artifacts, ratings, audit, nextId, reqs>>

InitLicense ==
    /\ artifacts = NoDict
    /\ ratings = NoDict
    /\ audit = {}
    /\ nextId = 0
    /\ reqs = [r \in Slots |-> Idle]
    /\ \E mi \in LicenseModels, up \in LicenseUpstreams : probe = LicenseProbe(mi, up)

NextLicense == RunLicenseMetric

SpecLicense == InitLicense /\ [][NextLicense]_vars

(***************************************************************************)
(* SizeMetric on its own: a name and an answer to the file-listing request *)
(* are drawn; the size is estimated and the four classes are scored.  The  *)
(* listings with sizes hold totals whose GB value is exact in thousandths  *)
(* or lies well away from every step of the scale.                         *)
(***************************************************************************)
N_7B == <<"t","e","s","t","/","7","B","-","c","h","a","t">>
N_small == <<"o","r","g","/","s","m","a","l","l","-","x">>
N_large == <<"o","r","g","/","l","a","r","g","e">>
N_13b == <<"x","/","1","3","b">>
N_70b == <<"x","/","7","0","b">>
N_3b == <<"x","/","3","-","b">>
N_1b == <<"x","/","1","b">>

SizeModels ==
    {RateModelInfo(n) :
        n \in {N_7b, N_7B, N_small, N_large, N_13b, N_70b, N_3b, N_1b, N_plain}}
    \cup {D_none}

\* the totals of the listings with sizes, in MiB
SizeTotals ==
    {512, 800, 1024, 1536, 2048, 3072, 3100, 4096, 13312, 16384, 32768, 65536, 200000}

\* the listing request fails, is refused, or answers with a listing
SizeListings ==
    { FetchExc(NoFiles), Resp(404, FilesFull), Resp(500, NoFiles), Resp(200, NoFiles),
      Resp(200, FilesNoSize), Resp(200, FilesOdd), Resp(200, Unreadable(NoFiles)),
      Resp(200, FilesRepo) }
    \cup {Resp(200, [NoFiles EXCEPT !.items = <<File(P_config_json, 0),
                                                File(P_weights_bin, t)>>]) :
            t \in SizeTotals}

SizeUpstreams == {[UpDown EXCEPT !.files = f] : f \in SizeListings}

RunEstimate ==
    /\ probe.on
    /\ probe' = Ran("estimate", _estimate_model_size(probe.mi, probe.up))
    /\ UNCHANGED <<artifacts, ratings, audit, nextId, reqs>>

RunSizeMetric ==
    /\ probe.on
    /\ probe' = Ran("size", SizeCalculate(probe.mi, probe.up))
    /\ UNCHANGED <<artifacts, ratings, audit, nextId, reqs>>

InitSize ==
    /\ artifacts = NoDict
    /\ ratings = NoDict
    /\ audit = {}
    /\ nextId = 0
    /\ reqs = [r \in Slots |-> Idle]
    /\ \E mi \in SizeModels, up \in SizeUpstreams : probe = Probe(mi, up)

NextSize == RunEstimate \/ RunSizeMetric

SpecSize == InitSize /\ [][NextSize]_vars

(***************************************************************************)
(* The net score on its own: the eight sub-scores are drawn, the           *)
(* calculator combines them and rate_model assembles its Rating from the   *)
(* calculator's result                                                     *)
(***************************************************************************)
\* the size map of the calculator tests, and three level ones
SizeMaps ==
    {[hw \in Hardware |->
        CASE hw = "raspberry_pi" -> 500
          [] hw = "jetson_nano"  -> 800
          [] OTHER               -> 1000]}
    \cup {[hw \in Hardware |-> v] : v \in {0, 500, 1000}}

SubScores ==
    [license : {0, 500, 900, 1000}, size_score : SizeMaps, ramp_up_time : {500, 700},
     bus_factor : {500, 600}, performance_claims : {0, 500, 1000},
     dataset_and_code_score : {400, 500}, dataset_quality : {300, 500},
     code_quality : {500, 800}]

NetProbe(s) == [on |-> TRUE, metrics |-> s, scorer |-> "none", out |-> 0]

RunNetScore ==
    /\ probe.on
    /\ probe' = Ran("net_score", _calculate_net_score(probe.metrics))
    /\ UNCHANGED <<artifacts, ratings, audit, nextId, reqs>>

\* rate_model from the call of the calculator to the assembled ModelRating
RunAssemble(t) ==
    /\ probe.on
    /\ LET artifact == [name |-> N_7b, type |-> "model", url |-> U_MODEL]
           metrics == AllMetrics(artifact.name, probe.metrics, t.ms)
       IN probe' = Ran("rating", AssembleRating(artifact, metrics, t.total))
    /\ UNCHANGED <<artifacts, ratings, audit, nextId, reqs>>

InitNet ==
    /\ artifacts = NoDict
    /\ ratings = NoDict
    /\ audit = {}
    /\ nextId = 0
    /\ reqs = [r \in Slots |-> Idle]
    /\ \E s \in SubScores : probe = NetProbe(s)

NextNet == RunNetScore \/ \E t \in Timings : RunAssemble(t)

SpecNet == InitNet /\ [][NextNet]_vars

(***************************************************************************)
(* The scoring step under its deadline.  The calculator is not among the   *)
(* sources; its fan-out is written from the specification (5): one task    *)
(* per scorer, joined under one overall deadline, a task still running     *)
(* when the deadline passes being cancelled and its result replaced by the *)
(* scorer's fallback.  rate_model calls the calculator and waits for its   *)
(* return, then assembles, caches and returns the Rating.  Time is counted *)
(* in ticks up to the deadline; a scorer may take any number of ticks or   *)
(* never return.                                                           *)
(***************************************************************************)
DeadlineTicks == 2

\* what each calculate returns from its except clause
Fallback(scorer) ==
    CASE scorer = "size_score" -> [hw \in Hardware |-> 700]
      [] scorer = "dataset_quality" -> 600
      [] OTHER -> 500

OrchModels == {D_bare, D_rich}

OrchScores == [mi \in OrchModels |-> Scores(mi, UpOk)]

OrchProbe(mi) ==
    [on |-> TRUE, mi |-> mi, up |-> UpOk, scorer |-> "none", out |-> NoDict,
     pc |-> "scoring", clock |-> 0, expired |-> FALSE,
     tasks |-> [s \in Scorers |-> "running"], results |-> [s \in Scorers |-> 0],
     resp |-> NoResponse]

Scoring == probe.on /\ probe.pc = "scoring"

ScorerReturns(s) ==
    /\ Scoring
    /\ probe.tasks[s] = "running"
    /\ probe' = [probe EXCEPT !.tasks[s] = "done",
                              !.results[s] = OrchScores[probe.mi][s]]
    /\ UNCHANGED <<artifacts, ratings, audit, nextId, reqs>>

Tick ==
    /\ Scoring
    /\ probe.clock < DeadlineTicks
    /\ \E s \in Scorers : probe.tasks[s] = "running"
    /\ probe' = [probe EXCEPT !.clock = @ + 1]
    /\ UNCHANGED <<artifacts, ratings, audit, nextId, reqs>>

\* a deadline that is noticed while the running tasks are left to finish
DeadlineWaits ==
    /\ Scoring
    /\ probe.clock = DeadlineTicks
    /\ ~probe.expired
    /\ \E s \in Scorers : probe.tasks[s] = "running"
    /\ probe' = [probe EXCEPT !.expired = TRUE]
    /\ UNCHANGED <<artifacts, ratings, audit, nextId, reqs>>

DeadlinePasses ==
    /\ Scoring
    /\ probe.clock = DeadlineTicks
    /\ ~probe.expired
    /\ \E s \in Scorers : probe.tasks[s] = "running"
    /\ probe' = [probe EXCEPT
            !.expired = TRUE,
            !.tasks = [s \in Scorers |-> IF @[s] = "running" THEN "cancelled" ELSE @[s]],
            !.results = [s \in Scorers |->
                            IF probe.tasks[s] = "running" THEN Fallback(s) ELSE @[s]]]
    /\ UNCHANGED <<artifacts, ratings, audit, nextId, reqs>>

\* the calculator returns and rate_model assembles the Rating
Join(t) ==
    /\ Scoring
    /\ \A s \in Scorers : probe.tasks[s] # "running"
    /\ LET artifact == [name |-> probe.mi.name, type |-> "model", url |-> U_MODEL]
           metrics == AllMetrics(artifact.name, probe.results, t.ms)
       IN probe' = [probe EXCEPT !.pc = "assembled",
                                 !.out = AssembleRating(artifact, metrics, t.total)]
    /\ UNCHANGED <<artifacts, ratings, audit, nextId, reqs>>

\* rate_model caches the Rating and returns it
CacheAndReturn ==
    /\ probe.on
    /\ probe.pc = "assembled"
    /\ ratings' = put_item(ratings, 1, RatingItem(probe.out, 1))
    /\ probe' = [probe EXCEPT !.pc = "returned", !.resp = Rated("fresh", probe.out)]
    /\ UNCHANGED <<artifacts, audit, nextId, reqs>>

InitDeadline ==
    /\ artifacts = NoDict
    /\ ratings = NoDict
    /\ audit = {}
    /\ nextId = 0
    /\ reqs = [r \in Slots |-> Idle]
    /\ \E mi \in OrchModels : probe = OrchProbe(mi)

NextDeadline ==
    \/ \E s \in Scorers : ScorerReturns(s)
    \/ Tick
    \/ DeadlinePasses
    \/ \E t \in Timings : Join(t)
    \/ CacheAndReturn

SpecDeadline == InitDeadline /\ [][NextDeadline]_vars

(***************************************************************************)
(* The registry routes served one request at a time, each with its answer  *)
(***************************************************************************)
\* MockTable.update_item: the item keeps every attribute but updated_at
MockTable_update_item(table, key) == [table EXCEPT ![key].updated_at = 1]

\* an Artifacts item; updated_at is 0 while it equals created_at, 1 once it is later
ArtifactItem(name, artifact_type, url) ==
    [name |-> name, type |-> artifact_type, url |-> url, updated_at |-> 0]

NoItem == [name |-> <<>>, type |-> "", url |-> <<>>, updated_at |-> 0]

NoBody == [id |-> 0, name |-> <<>>, url |-> <<>>]

\* the request bodies of update_artifact: metadata.id, metadata.name and data.url
BodyNames == StoredNames \cup {N_plain}

Bodies == [id : Ids, name : BodyNames, url : {U_MODEL, U_CODE}]

\* what a reset finds: the ids stored and the ids with a cached rating
Before == [ids |-> DOMAIN artifacts, rated |-> DOMAIN ratings]

Nothing == [ids |-> {}, rated |-> {}]

Answer(status, url) == [status |-> status, url |-> url]

RegistryProbe(op, id, body, resp, was, existed) ==
    [on |-> TRUE, op |-> op, id |-> id, body |-> body, resp |-> resp, was |-> was,
     existed |-> existed]

Stored(id) == IF has_item(artifacts, id) THEN artifacts[id] ELSE NoItem

\* the answer of get_artifact
get_artifact(artifact_type, id) ==
    IF ~has_item(artifacts, id) THEN Answer(404, <<>>)
    ELSE IF artifacts[id].type # artifact_type THEN Answer(400, <<>>)
    ELSE Answer(200, artifacts[id].url)

\* the answer of rate_model with a token and with both tables in reach
rate_model(id) ==
    IF ~has_item(artifacts, id) THEN Answer(404, <<>>)
    ELSE IF artifacts[id].type # "model" THEN Answer(400, <<>>)
    ELSE IF has_item(ratings, id) THEN Answer(200, <<>>)
    ELSE IF ~url_parser[artifacts[id].url].ok
            \/ url_parser[artifacts[id].url].type # "model" THEN Answer(400, <<>>)
    ELSE Answer(200, <<>>)

PostArtifact(artifact_type, url) ==
    /\ nextId < MaxArtifacts
    /\ LET parsed == url_parser[url]
           artifact_id == generate_artifact_id
       IN IF artifact_type \notin ArtifactTypes \/ ~parsed.ok
          THEN /\ probe' = RegistryProbe("post", 0, NoBody, Answer(400, <<>>), NoItem, Nothing)
               /\ UNCHANGED <<artifacts, audit, nextId>>
          ELSE /\ artifacts' = put_item(artifacts, artifact_id,
                        ArtifactItem(canonicalize_name(parsed.name), artifact_type, url))
               /\ nextId' = artifact_id
               /\ log_audit_action(artifact_id, "CREATE")
               /\ probe' = RegistryProbe("post", artifact_id, NoBody, Answer(201, url),
                                         NoItem, Nothing)
    /\ UNCHANGED <<ratings, reqs>>

GetArtifact(artifact_type, id) ==
    /\ probe' = RegistryProbe("get", id, NoBody, get_artifact(artifact_type, id),
                              Stored(id), Nothing)
    /\ IF get_artifact(artifact_type, id).status = 200
       THEN log_audit_action(id, "DOWNLOAD")
       ELSE UNCHANGED audit
    /\ UNCHANGED <<artifacts, ratings, nextId, reqs>>

\* update_artifact accepting a body whatever name it carries, as the route does
PutArtifact(id, body) ==
    /\ IF body.id # id
       THEN /\ probe' = RegistryProbe("put", id, body, Answer(400, <<>>), Stored(id), Nothing)
            /\ UNCHANGED <<artifacts, audit>>
       ELSE IF ~has_item(artifacts, id)
       THEN /\ probe' = RegistryProbe("put", id, body, Answer(404, <<>>), NoItem, Nothing)
            /\ UNCHANGED <<artifacts, audit>>
       ELSE /\ artifacts' = MockTable_update_item(artifacts, id)
            /\ log_audit_action(id, "UPDATE")
            /\ probe' = RegistryProbe("put", id, body, Answer(200, <<>>), Stored(id), Nothing)
    /\ UNCHANGED <<ratings, nextId, reqs>>

DeleteArtifact(id) ==
    /\ IF ~has_item(artifacts, id)
       THEN /\ probe' = RegistryProbe("delete", id, NoBody, Answer(404, <<>>), NoItem, Nothing)
            /\ UNCHANGED <<artifacts, audit>>
       ELSE /\ artifacts' = delete_item(artifacts, id)
            /\ log_audit_action(id, "DELETE")
            /\ probe' = RegistryProbe("delete", id, NoBody, Answer(200, <<>>),
                                      Stored(id), Nothing)
    /\ UNCHANGED <<ratings, nextId, reqs>>

\* rate_model from its first line to its answer, no other request in between
GetRate(id, up, t) ==
    /\ probe' = RegistryProbe("rate", id, NoBody, rate_model(id), Stored(id), Nothing)
    /\ IF rate_model(id).status = 200 /\ ~has_item(ratings, id)
       THEN ratings' = put_item(ratings, id,
                RatingItem(AssembleRating(artifacts[id],
                               metrics_calculator[artifacts[id].name][up][t.ms], t.total),
                           id))
       ELSE UNCHANGED ratings
    /\ UNCHANGED <<artifacts, audit, nextId, reqs>>

\* a reset that leaves the Ratings table as it is
DeleteResetKeepsRatings ==
    /\ artifacts' = NoDict
    /\ audit' = {}
    /\ probe' = RegistryProbe("reset", 0, NoBody, Answer(200, <<>>), NoItem, Before)
    /\ UNCHANGED <<ratings, nextId, reqs>>

\* reset_registry: the three tables are scanned and emptied, one after the other
DeleteReset ==
    /\ artifacts' = NoDict
    /\ ratings' = NoDict
    /\ audit' = {}
    /\ probe' = RegistryProbe("reset", 0, NoBody, Answer(200, <<>>), NoItem, Before)
    /\ UNCHANGED <<nextId, reqs>>

\* a table call of reset_registry raises: the tables before it are already empty
DeleteResetUnavailable(table) ==
    /\ artifacts' = IF table = "Artifacts" THEN artifacts ELSE NoDict
    /\ ratings' = IF table = "AuditLog" THEN NoDict ELSE ratings
    /\ probe' = RegistryProbe("reset", 0, NoBody, Answer(500, <<>>), NoItem, Before)
    /\ UNCHANGED <<audit, nextId, reqs>>

InitRegistry ==
    /\ artifacts = NoDict
    /\ ratings = NoDict
    /\ audit = {}
    /\ nextId = 0
    /\ reqs = [r \in Slots |-> Idle]
    /\ probe = RegistryProbe("none", 0, NoBody, Answer(0, <<>>), NoItem, Nothing)

NextRegistry ==
    \/ \E c \in CreateInputs : PostArtifact(c[1], c[2])
    \/ \E artifact_type \in ArtifactTypes, id \in Ids : GetArtifact(artifact_type, id)
    \/ \E id \in Ids, body \in Bodies : PutArtifact(id, body)
    \/ \E id \in Ids : DeleteArtifact(id)
    \/ \E id \in Ids, up \in Upstreams, t \in Timings : GetRate(id, up, t)
    \/ DeleteReset
    \/ \E table \in {"Artifacts", "Ratings", "AuditLog"} : DeleteResetUnavailable(table)

SpecRegistry == InitRegistry /\ [][NextRegistry]_vars

(***************************************************************************)
(* The route table of the application and the dispatch of a request        *)
(***************************************************************************)
MaxSegments == 4

Route(method, path, handler) == [method |-> method, path |-> path, handler |-> handler]

\* the routes in the order include_router registers them; a path is its segments,
\* "{}" a parameter of one segment and "{:path}" a parameter of the path kind
Routes ==
    << Route("GET", <<"health">>, "health_check"),
       Route("GET", <<"health", "components">>, "health_components"),
       Route("GET", <<"artifact", "model", "{}", "rate">>, "rate_model"),
       Route("DELETE", <<"reset">>, "reset_registry"),
       Route("POST", <<"artifacts">>, "list_artifacts"),
       Route("POST", <<"artifact", "{}">>, "create_artifact"),
       Route("GET", <<"artifacts", "{}", "{}">>, "get_artifact"),
       Route("GET", <<"artifact", "{}", "{}">>, "get_artifact"),
       Route("PUT", <<"artifacts", "{}", "{}">>, "update_artifact"),
       Route("PUT", <<"artifact", "{}", "{}">>, "update_artifact"),
       Route("DELETE", <<"artifacts", "{}", "{}">>, "delete_artifact"),
       Route("DELETE", <<"artifact", "{}", "{}">>, "delete_artifact"),
       Route("POST", <<"artifact", "byRegEx">>, "search_by_regex"),
       Route("GET", <<"artifact", "byName", "{:path}">>, "search_by_name"),
       Route("GET", <<"artifact", "{}", "{}", "cost">>, "get_artifact_cost"),
       Route("GET", <<"artifact", "model", "{}", "lineage">>, "get_model_lineage"),
       Route("POST", <<"artifact", "model", "{}", "license-check">>, "check_license"),
       Route("PUT", <<"authenticate">>, "authenticate"),
       Route("GET", <<"tracks">>, "get_tracks") >>

\* a route's path matches a request path: a parameter takes one segment, a
\* parameter of the path kind takes all that is left
RECURSIVE PathMatches(_, _)
PathMatches(pattern, path) ==
    IF pattern = <<>> THEN path = <<>>
    ELSE IF Head(pattern) = "{:path}" THEN path # <<>>
    ELSE /\ path # <<>>
         /\ Head(pattern) \in {"{}", Head(path)}
         /\ PathMatches(Tail(pattern), Tail(path))

\* the first route that matches path and method serves the request; a path
\* that only routes of other methods match gets 405, an unknown path 404
Dispatch(method, path) ==
    LET partial == {i \in 1..Len(Routes) : PathMatches(Routes[i].path, path)}
        full == {i \in partial : Routes[i].method = method}
    IN IF full # {} THEN Routes[MinOf(full)].handler
       ELSE IF partial # {} THEN "405" ELSE "404"

Methods == {"GET", "POST", "PUT", "DELETE"}

RouteSegments == {"artifact", "byRegEx", "byName", "model", "rate", "cost", "7", "test"}

RequestPaths ==
    UNION {[1..n -> RouteSegments] : n \in 1..MaxSegments}
        \cup {<<"reset">>, <<"health">>, <<"tracks">>, <<"artifacts">>,
              <<"artifacts", "model", "7">>, <<"artifact", "model", "7", "lineage">>}

RouteProbe(method, path) ==
    [on |-> TRUE, pc |-> "received", method |-> method, path |-> path, handler |-> "none"]

ServeRequest ==
    /\ probe.pc = "received"
    /\ probe' = [probe EXCEPT !.pc = "routed", !.handler = Dispatch(probe.method, probe.path)]
    /\ UNCHANGED <<artifacts, ratings, audit, nextId, reqs>>

InitRoute ==
    /\ artifacts = NoDict
    /\ ratings = NoDict
    /\ audit = {}
    /\ nextId = 0
    /\ reqs = [r \in Slots |-> Idle]
    /\ \E method \in Methods, path \in RequestPaths : probe = RouteProbe(method, path)

NextRoute == ServeRequest

SpecRoute == InitRoute /\ [][NextRoute]_vars

(***************************************************************************)
(* BusFactorMetric over the age of last_modified                           *)
(***************************************************************************)
\* ages in days of last_modified, the bucket limits and their neighbours among
\* them; -1 is a date one day ahead of the clock
Ages == {-1, 0, 1, 29, 30, 31, 89, 90, 91, 179, 180, 181, 364, 365, 366, 400, 1000}

Aged(mi, days) == [mi EXCEPT !.last_modified = [kind |-> "date", days |-> days]]

BusFactorModels ==
    {[RateModelInfo(n) EXCEPT !.likes = l] : n \in {N_plain, N_7b, N_bert}, l \in {0, 50, 2000}}

RunBusFactorMetric ==
    /\ probe.on
    /\ probe.scorer = "none"
    /\ probe' = Ran("bus_factor", BusFactorCalculate(probe.mi))
    /\ UNCHANGED <<artifacts, ratings, audit, nextId, reqs>>

InitBusFactor ==
    /\ artifacts = NoDict
    /\ ratings = NoDict
    /\ audit = {}
    /\ nextId = 0
    /\ reqs = [r \in Slots |-> Idle]
    /\ \E mi \in BusFactorModels, days \in Ages : probe = Probe(Aged(mi, days), UpOk)

NextBusFactor == RunBusFactorMetric

SpecBusFactor == InitBusFactor /\ [][NextBusFactor]_vars

(***************************************************************************)
(* check_license_compatibility                                             *)
(***************************************************************************)
permissive_licenses ==
    << <<"m","i","t">>,
       <<"a","p","a","c","h","e","-","2",".","0">>,
       <<"b","s","d","-","2","-","c","l","a","u","s","e">>,
       <<"b","s","d","-","3","-","c","l","a","u","s","e">>,
       <<"i","s","c">>,
       <<"c","c","-","b","y","-","4",".","0">> >>

compatible_with_apache ==
    << <<"m","i","t">>,
       <<"b","s","d","-","2","-","c","l","a","u","s","e">>,
       <<"b","s","d","-","3","-","c","l","a","u","s","e">>,
       <<"l","g","p","l","-","2",".","1">>,
       <<"l","g","p","l","-","3",".","0">>,
       <<"a","p","a","c","h","e","-","2",".","0">> >>

gpl_licenses ==
    << <<"g","p","l","-","2",".","0">>,
       <<"g","p","l","-","3",".","0">>,
       <<"a","g","p","l","-","3",".","0">> >>

lgpl_licenses ==
    << <<"l","g","p","l","-","2",".","1">>,
       <<"l","g","p","l","-","3",".","0">> >>

I_apache_2_0 == <<"a","p","a","c","h","e","-","2",".","0">>

I_cc_by == <<"c","c","-","b","y">>

I_unknown == <<"u","n","k","n","o","w","n">>

In(x, list) == \E i \in 1..Len(list) : list[i] = x

check_license_compatibility(artifact_license, github_license) ==
    LET a == Strip(Lower(artifact_license))
        g == Strip(Lower(github_license))
        compatible_with_gpl == gpl_licenses \o lgpl_licenses
    IN IF In(a, permissive_licenses) /\ In(g, permissive_licenses) THEN TRUE
       ELSE IF /\ (a = I_apache_2_0 \/ g = I_apache_2_0)
               /\ In(a, compatible_with_apache) /\ In(g, compatible_with_apache) THEN TRUE
       ELSE IF a = W_mit \/ g = W_mit THEN TRUE
       ELSE IF In(a, gpl_licenses) \/ In(g, gpl_licenses)
            THEN ~(~In(a, compatible_with_gpl) \/ ~In(g, compatible_with_gpl))
       ELSE IF In(a, lgpl_licenses) \/ In(g, lgpl_licenses) THEN TRUE
       ELSE IF Contains(I_cc_by, a) \/ Contains(I_cc_by, g) THEN TRUE
       ELSE IF a = I_unknown \/ g = I_unknown THEN TRUE
       ELSE TRUE

\* the licenses tried: the identifiers of the license table, plain and in capitals
\* with whitespace around them, and the two the lists here add
CompatLicenses ==
    LicenseIdentifiers \cup LicenseIdentifiersSpelled
        \cup {<<"a","g","p","l","-","3",".","0">>, <<"i","s","c">>,
              <<" ","A","G","P","L","-","3",".","0"," ">>}

CompatProbe(artifact_license, github_license) ==
    [on |-> TRUE, pc |-> "asked", artifact_license |-> artifact_license,
     github_license |-> github_license, out |-> FALSE]

RunCompatibility ==
    /\ probe.pc = "asked"
    /\ probe' = [probe EXCEPT !.pc = "answered",
            !.out = check_license_compatibility(probe.artifact_license, probe.github_license)]
    /\ UNCHANGED <<artifacts, ratings, audit, nextId, reqs>>

InitCompat ==
    /\ artifacts = NoDict
    /\ ratings = NoDict
    /\ audit = {}
    /\ nextId = 0
    /\ reqs = [r \in Slots |-> Idle]
    /\ \E a \in CompatLicenses, g \in CompatLicenses : probe = CompatProbe(a, g)

NextCompat == RunCompatibility

SpecCompat == InitCompat /\ [][NextCompat]_vars

(***************************************************************************)
(* DynamoDBService: callers of update_item and delete_item side by side    *)
(***************************************************************************)
\* the record create_item puts in the table
NewItem ==
    [state |-> "active", version |-> 1,
     change_history |-> {[version |-> 1, action |-> "CREATE"]}]

Waiting == [pc |-> "idle", op |-> "none", id |-> 0, version |-> 0, outcome |-> "none"]

ServiceProbe(items, callers, issued) ==
    [on |-> TRUE, items |-> items, callers |-> callers, issued |-> issued]

Caller(c, state) ==
    probe' = [probe EXCEPT !.callers = [probe.callers EXCEPT ![c] = state]]

Service_create_item ==
    /\ probe.issued < MaxArtifacts
    /\ probe' = [probe EXCEPT !.issued = probe.issued + 1,
                              !.items = put_item(probe.items, probe.issued + 1, NewItem)]
    /\ UNCHANGED <<artifacts, ratings, audit, nextId, reqs>>

\* update_item (op "UPDATE") and delete_item (op "DELETE") up to the version
\* they compute from the item they have read
Service_read_for(c, op, item_id) ==
    /\ probe.callers[c].pc = "idle"
    /\ LET call == [Waiting EXCEPT !.op = op, !.id = item_id]
       IN Caller(c, IF ~has_item(probe.items, item_id)
                    THEN [call EXCEPT !.pc = "done", !.outcome = "ValueError"]
                    ELSE [call EXCEPT !.pc = "read",
                                      !.version = probe.items[item_id].version + 1])
    /\ UNCHANGED <<artifacts, ratings, audit, nextId, reqs>>

\* the read of the table raises ClientError, which is logged and raised again
Service_read_unavailable(c, op, item_id) ==
    /\ probe.callers[c].pc = "idle"
    /\ Caller(c, [Waiting EXCEPT !.op = op, !.id = item_id, !.pc = "done",
                                 !.outcome = "ClientError"])
    /\ UNCHANGED <<artifacts, ratings, audit, nextId, reqs>>

\* the change entry, a dict, is put in a set literal: TypeError (unhashable
\* type), which no except clause of the method catches; the table's own
\* update_item is never called
Service_change_entry(c) ==
    /\ probe.callers[c].pc = "read"
    /\ Caller(c, [probe.callers[c] EXCEPT !.pc = "done", !.outcome = "TypeError"])
    /\ UNCHANGED <<artifacts, ratings, audit, nextId, reqs>>

\* the caller has its result or its exception and is free for its next call
Service_returns(c) ==
    /\ probe.callers[c].pc = "done"
    /\ Caller(c, [Waiting EXCEPT !.outcome = probe.callers[c].outcome])
    /\ UNCHANGED <<artifacts, ratings, audit, nextId, reqs>>

InitService ==
    /\ artifacts = NoDict
    /\ ratings = NoDict
    /\ audit = {}
    /\ nextId = 0
    /\ reqs = [r \in Slots |-> Idle]
    /\ probe = ServiceProbe(NoDict, [c \in Slots |-> Waiting], 0)

NextService ==
    \/ Service_create_item
    \/ \E c \in Slots, op \in {"UPDATE", "DELETE"}, item_id \in Ids :
            \/ Service_read_for(c, op, item_id)
            \/ Service_read_unavailable(c, op, item_id)
    \/ \E c \in Slots : Service_change_entry(c)
    \/ \E c \in Slots : Service_returns(c)

SpecService == InitService /\ [][NextService]_vars

(***************************************************************************)
(* A name on its way into the registry and back: create_artifact stores    *)
(* its canonical form, search_by_name looks a name up                      *)
(***************************************************************************)
MaxNameLen == 4

NameChars == {"a", "B", "/", " ", "%", "2", "5", "4", "1"}

\* the raw names: every string of NameChars up to MaxNameLen, and three longer ones
RawNames ==
    UNION {[1..n -> NameChars] : n \in 1..MaxNameLen}
        \cup {<<"%","2","5","4","1">>,
              <<"T","e","s","t","/","7","B","-","M","o","d","e","l">>,
              <<"o","r","g","%","2","F","m","o","d","e","l">>}

\* MockTable.scan: every item of the table, whatever FilterExpression is passed
scan(table) == {table[k] : k \in DOMAIN table}

\* the items search_by_name answers with for a name; none is a 404
search_by_name(table, name) ==
    LET norm_name == canonicalize_name(name)
    IN [norm_name |-> norm_name, Items |-> scan(table)]

NameProbe(raw) ==
    [on |-> TRUE, pc |-> "raw", raw |-> raw, stored |-> <<>>, by |-> "none",
     norm_name |-> <<>>, found |-> FALSE]

\* create_artifact: the name is stored in its canonical form
StoreName ==
    /\ probe.pc = "raw"
    /\ artifacts' = put_item(artifacts, 1,
            ArtifactItem(canonicalize_name(probe.raw), "model", U_MODEL))
    /\ probe' = [probe EXCEPT !.pc = "stored", !.stored = canonicalize_name(probe.raw)]
    /\ UNCHANGED <<ratings, audit, nextId, reqs>>

\* search_by_name with the stored form of the name or with its raw form
SearchName(by) ==
    /\ probe.pc = "stored"
    /\ LET response == search_by_name(artifacts,
                            IF by = "stored" THEN probe.stored ELSE probe.raw)
       IN probe' = [probe EXCEPT !.pc = "looked", !.by = by,
                        !.norm_name = response.norm_name,
                        !.found = \E item \in response.Items : item.name = probe.stored]
    /\ UNCHANGED <<artifacts, ratings, audit, nextId, reqs>>

InitName ==
    /\ artifacts = NoDict
    /\ ratings = NoDict
    /\ audit = {}
    /\ nextId = 0
    /\ reqs = [r \in Slots |-> Idle]
    /\ \E raw \in RawNames : probe = NameProbe(raw)

NextName == StoreName \/ \E by \in {"stored", "raw"} : SearchName(by)

SpecName == InitName /\ [][NextName]_vars

(***************************************************************************)
(* Properties of rate_model and of the scorers                             *)
(***************************************************************************)
\* request r ends in this step
Ends(r) == reqs[r].pc # "done" /\ reqs'[r].pc = "done"

Returned(r) == reqs[r].pc = "done" /\ reqs[r].resp.status = 200

SameFields(a, b) == \A f \in ModelRatingFields : a[f] = b[f]

CacheFailure(resp) ==
    resp.kind = "error" /\ resp.cause \in {"ratings.get_item", "ratings.put_item"}

\* C1: when a rate_model request reads the cache and the cache holds a rating for its
\* id, the request ends there: it returns that rating with every field as it is stored,
\* it has run no scorer, and the cache is left as it was (the only other outcome is the
\* error of a cache that cannot be read).
C1_CacheHitUnchanged ==
    [][\A r \in Slots :
        (reqs[r].pc = "cache" /\ has_item(ratings, reqs[r].id) /\ reqs'[r] # reqs[r]) =>
            /\ Ends(r)
            /\ reqs'[r].calls = 0
            /\ ratings' = ratings
            /\ \/ CacheFailure(reqs'[r].resp)
               \/ /\ reqs'[r].resp.status = 200
                  /\ reqs'[r].resp.kind = "hit"
                  /\ SameFields(reqs'[r].resp.rating, ratings[reqs[r].id])]_vars

\* a request was answered from the cache, with the latency of the computation that
\* filled the cache still in it
C1_Witness ==
    \E r \in Slots :
        /\ Returned(r)
        /\ reqs[r].resp.kind = "hit"
        /\ reqs[r].calls = 0
        /\ has_item(ratings, reqs[r].id)
        /\ reqs[r].resp.rating["net_score_latency"] = 41
        /\ SameFields(reqs[r].resp.rating, ratings[reqs[r].id])

\* C2: when requests are served one at a time, once a computation for an id has
\* succeeded (its rating is in the cache) no request for that id runs the scorers
\* again: every later request that returns a Rating is a cache hit with a scorer-call
\* count of 0, and its Rating is the cached one, which does not change.
C2_AtMostOneComputation ==
    [][/\ \A r \in Slots :
            reqs'[r].pc \in {"score", "write"} => ~has_item(ratings', reqs'[r].id)
       /\ \A r \in Slots :
            (Ends(r) /\ reqs'[r].resp.status = 200 /\ has_item(ratings, reqs'[r].id)) =>
                /\ reqs'[r].resp.kind = "hit"
                /\ reqs'[r].calls = 0
                /\ SameFields(reqs'[r].resp.rating, ratings[reqs'[r].id])
       /\ \A id \in DOMAIN ratings \cap DOMAIN ratings' : ratings'[id] = ratings[id]]_vars

\* a first request computed the rating of an id and a later one got the same rating
\* without a scorer call
C2_Witness ==
    \E r1, r2 \in Slots :
        /\ Returned(r1) /\ reqs[r1].resp.kind = "fresh" /\ reqs[r1].calls = 1
        /\ Returned(r2) /\ reqs[r2].resp.kind = "hit" /\ reqs[r2].calls = 0
        /\ reqs[r1].id = reqs[r2].id
        /\ reqs[r1].resp.rating = reqs[r2].resp.rating

\* C3: the requests that computed a rating for the same id all return equal Ratings,
\* and the cache, when it holds a rating for the id, holds that one.
C3_CallersAgree ==
    \A r1, r2 \in Slots :
        ( /\ Returned(r1) /\ reqs[r1].resp.kind = "fresh"
          /\ Returned(r2) /\ reqs[r2].resp.kind = "fresh"
          /\ reqs[r1].id = reqs[r2].id ) =>
            /\ reqs[r1].resp.rating = reqs[r2].resp.rating
            /\ has_item(ratings, reqs[r1].id) =>
                    SameFields(reqs[r1].resp.rating, ratings[reqs[r1].id])

\* C4: the step in which rate_model returns a freshly computed Rating leaves in the
\* cache an entry under the artifact id whose rating fields are those of the returned
\* Rating.
C4_WrittenBeforeReturn ==
    [][\A r \in Slots :
        (Ends(r) /\ reqs'[r].resp.kind = "fresh") =>
            /\ has_item(ratings', reqs'[r].id)
            /\ ratings'[reqs'[r].id]["artifact_id"] = reqs'[r].id
            /\ SameFields(ratings'[reqs'[r].id], reqs'[r].resp.rating)]_vars

\* a fresh rating was returned and the cache holds it under the id
C4_Witness ==
    \E r \in Slots :
        /\ Returned(r)
        /\ reqs[r].resp.kind = "fresh"
        /\ has_item(ratings, reqs[r].id)
        /\ ratings[reqs[r].id]["artifact_id"] = reqs[r].id
        /\ SameFields(ratings[reqs[r].id], reqs[r].resp.rating)

\* what a computation produces: the keys of the calculator's result, and the elapsed
\* time rate_model measures itself
ProducedFields == DOMAIN calculate_all_metrics(D_bare, UpOk, 0) \cup {"net_score_latency"}

\* C5: every rate_model response is an error or a Rating all of whose score and
\* latency fields were produced by the computation.
C5_CompleteOrError ==
    \A r \in Slots :
        reqs[r].pc = "done" =>
            \/ reqs[r].resp.kind = "error"
            \/ /\ reqs[r].resp.status = 200
               /\ DOMAIN reqs[r].resp.rating = ModelRatingFields
               /\ \A f \in ScoreFields \cup LatencyFields \cup {"size_score"} :
                        f \in ProducedFields

\* C6: an error that comes from the cache being unavailable differs, in status or in
\* detail, from every rating error of another cause.
C6_CacheFailureDistinct ==
    \A r1, r2 \in Slots :
        ( /\ reqs[r1].pc = "done" /\ CacheFailure(reqs[r1].resp)
          /\ reqs[r2].pc = "done" /\ reqs[r2].resp.kind = "error"
          /\ ~CacheFailure(reqs[r2].resp) ) =>
            <<reqs[r1].resp.status, reqs[r1].resp.detail>>
                # <<reqs[r2].resp.status, reqs[r2].resp.detail>>

Kept(id) == has_item(ratings', id) /\ ratings'[id] = ratings[id]

ResetStep == artifacts' = NoDict /\ ratings' = NoDict /\ audit' = {}

\* a request that had read the cache before the entry was written puts its own rating
Overwritten(id) ==
    \E r \in Slots :
        /\ reqs[r].pc = "write" /\ reqs[r].id = id
        /\ Ends(r) /\ reqs'[r].resp.kind = "fresh"
        /\ SameFields(ratings'[id], reqs[r].rating)

InUnit(x) == 0 <= x /\ x <= Scale

\* C8: whatever the descriptor (a null one too) and whatever the metadata fetches do
\* (answer, answer with an error status, fail, answer with an unreadable body), each
\* scorer ends with a value in [0,1]; the size scorer with four of them.
C8_ScoreInUnit ==
    (probe.on /\ probe.scorer # "none") =>
        IF probe.scorer = "size_score"
        THEN DOMAIN probe.out = Hardware /\ \A hw \in Hardware : InUnit(probe.out[hw])
        ELSE InUnit(probe.out)

\* a scorer was run on the null descriptor while every fetch failed
C8_Witness ==
    /\ probe.on
    /\ probe.mi.isNone
    /\ probe.up = UpDown
    /\ probe.scorer = "dataset_quality"
    /\ probe.out = 660

FailedOutright(f, body) ==
    IF f.k = "resp" /\ f.status \notin 200..299 THEN FetchExc(body) ELSE f

\* the same provider with every error status turned into a failed fetch
Outright(up) ==
    [readme |-> FailedOutright(up.readme, NoReadme),
     files |-> FailedOutright(up.files, NoFiles),
     srcs |-> [i \in DOMAIN up.srcs |->
                 IF up.srcs[i].k = "resp" /\ up.srcs[i].status \notin 200..299
                 THEN SrcExc ELSE up.srcs[i]]]

\* C9: the score a scorer gives is the score it gives when every fetch that answered
\* with a non-2xx status fails outright instead.
C9_StatusAsFailure ==
    (probe.on /\ probe.scorer # "none") =>
        probe.out = Scores(probe.mi, Outright(probe.up))[probe.scorer]

\* a Python float is a whole number
IsWhole(x) == x % Scale = 0

\* C10: in every Rating rate_model returns, each latency field is a whole number
\* that is not negative.
C10_WholeLatencies ==
    \A r \in Slots :
        Returned(r) =>
            \A f \in LatencyFields :
                reqs[r].resp.rating[f] >= 0 /\ IsWhole(reqs[r].resp.rating[f])

(***************************************************************************)
(* Properties of the net score                                             *)
(***************************************************************************)
\* the sub-scores the combination runs over, the size score by its worst entry
Parts(s) ==
    [f \in DOMAIN Weights |->
        IF f = "size_score"
        THEN CHOOSE v \in {s.size_score[hw] : hw \in DOMAIN s.size_score} :
                \A hw \in DOMAIN s.size_score : v <= s.size_score[hw]
        ELSE s[f]]

RECURSIVE WeightedSum(_, _)
WeightedSum(parts, fields) ==
    IF fields = {} THEN 0
    ELSE LET f == CHOOSE g \in fields : TRUE
         IN Weights[f] * parts[f] + WeightedSum(parts, fields \ {f})

Combination(s) ==
    LET c == WeightedSum(Parts(s), DOMAIN Weights) \div Scale
    IN IF c < 0 THEN 0 ELSE IF c > Scale THEN Scale ELSE c

Level(s, v) == \A f \in DOMAIN Weights : Parts(s)[f] = v

\* the sub-scores of the calculator test
TestScores(s) ==
    /\ s.license = 900 /\ s.ramp_up_time = 700 /\ s.bus_factor = 600
    /\ s.performance_claims = 500 /\ Parts(s).size_score = 500
    /\ s.dataset_and_code_score = 400 /\ s.dataset_quality = 300
    /\ s.code_quality = 800

RanSize == probe.on /\ probe.scorer = "size"

RanEstimate == probe.on /\ probe.scorer = "estimate"

\* the size calculate works from
Estimated == _estimate_model_size(probe.mi, probe.up)

\* the limits C12 names, in thousandths
ClassLimit(hw) ==
    CASE hw = "raspberry_pi" -> 1 * Scale
      [] hw = "jetson_nano" -> 4 * Scale
      [] hw = "desktop_pc" -> 16 * Scale
      [] hw = "aws_server" -> 64 * Scale

\* the scale of C12, the fractions of the limit cleared of their denominators
ScaleOf(s, L) ==
    IF 2 * s <= L THEN 1000
    ELSE IF 10 * s <= 8 * L THEN 900
    ELSE IF s <= L THEN 800
    ELSE IF 2 * s <= 3 * L THEN 600
    ELSE IF s <= 2 * L THEN 500
    ELSE IF s <= 3 * L THEN 400
    ELSE 300

NoSizeData ==
    LET f == probe.up.files
    IN \/ f.k = "exc"
       \/ f.status # 200
       \/ (~f.body.bad /\ \A i \in 1..Len(f.body.items) : ~f.body.items[i].has_size)

\* C13: with no file-size data and a name that contains "7b" the estimate is
\* 13.0; the flat default 2.0 is not the estimate of a name with a size hint
\* of another value.
C13_SevenBFromName ==
    (RanEstimate /\ ~probe.mi.isNone /\ NoSizeData)
    => /\ Contains(W_7b, probe.mi.name) => probe.out = 13000
       /\ AnyIn({W_7b, W_13b, W_70b, W_3_b, W_small, W_large}, probe.mi.name)
             => probe.out # 2000

\* C14: for an estimated size of 13.0 calculate returns raspberry_pi = 0.0,
\* desktop_pc >= 0.6 and aws_server = 1.0.
C14_LargeModel ==
    (RanSize /\ Estimated = 13000)
    => /\ probe.out["raspberry_pi"] = 0
       /\ probe.out["desktop_pc"] >= 600
       /\ probe.out["aws_server"] = 1000

(***************************************************************************)
(* Properties of LicenseMetric                                             *)
(***************************************************************************)
RanLicense == probe.on /\ probe.scorer = "license"

\* the license value the metadata supplies, None without one
Supplied ==
    IF ~probe.mi.isNone /\ "license" \in DOMAIN probe.mi.api_data
    THEN probe.mi.api_data["license"] ELSE None

\* the license text calculate ends with: the metadata's, else the README's
LicenseText ==
    IF Truthy(Supplied) THEN Supplied
    ELSE _parse_license_from_readme(probe.mi, probe.up)

\* C15: when the structured metadata gives the license identifier apache-2.0 or
\* mit, calculate returns 1.0.
C15_PermissiveIsOne ==
    (RanLicense /\ Truthy(Supplied)
        /\ Strip(Lower(Supplied)) \in {LicenseKeys[1], LicenseKeys[2]})
    => probe.out = 1000

\* the identifiers C16 names, each with its own table value
OwnValues ==
    << <<LicenseKeys[4], 1000>>, <<LicenseKeys[3], 1000>>, <<LicenseKeys[5], 1000>>,
       <<LicenseKeys[6], 800>>, <<LicenseKeys[7], 300>>, <<LicenseKeys[8], 300>>,
       <<LicenseKeys[9], 700>>, <<LicenseKeys[10], 600>> >>

\* C16: a license identifier that is exactly one of bsd-2-clause, bsd-3-clause,
\* lgpl-2.1, lgpl-3.0, gpl-2.0, gpl-3.0, cc-by-4.0, cc-by-sa-4.0, in any letter
\* case and with whitespace around it, scores its own table value.
C16_OwnTableValue ==
    (RanLicense /\ Truthy(Supplied))
    => \A i \in 1..Len(OwnValues) :
          Strip(Lower(Supplied)) = OwnValues[i][1] => probe.out = OwnValues[i][2]

C16_Witness ==
    /\ RanLicense
    /\ Supplied = <<" ","L","G","P","L","-","3",".","0","\n">>
    /\ probe.out = 800

\* C17: the unknown-license fallback is 0.1: calculate returns it for the
\* identifier "unknown" and for a null descriptor.
C17_UnknownIsTenth ==
    (RanLicense
        /\ (probe.mi.isNone
              \/ (Truthy(Supplied) /\ Strip(Lower(Supplied)) = LicenseKeys[11])))
    => probe.out = 100

\* C18: calculate reads the structured metadata first and requests the README
\* only when the metadata holds no non-empty license value; with a license in
\* the metadata no request is made and the score is that of this value.
C18_MetadataFirst ==
    (RanLicense /\ ~probe.mi.isNone)
    => IF Truthy(Supplied)
       THEN probe.fetches = 0 /\ probe.out = LicenseLookup(Strip(Lower(Supplied)))
       ELSE probe.fetches = 1

C18_Witness ==
    /\ RanLicense
    /\ Supplied = LicenseKeys[8]
    /\ probe.up.readme = Resp(200, [NoReadme EXCEPT !.sec = L_lgpl_text])
    /\ probe.fetches = 0
    /\ probe.out = 300

\* C19: a license text that contains no table identifier is scored by the
\* keyword rules, in this order: apache, mit or bsd 0.9; cc or creative 0.7;
\* lgpl 0.9; gpl 0.3.  A text that mentions lgpl never scores as gpl.
C19_KeywordRules ==
    (RanLicense /\ ~probe.mi.isNone /\ Truthy(LicenseText)
        /\ \A i \in 1..Len(LicenseKeys) :
              ~Contains(LicenseKeys[i], Strip(Lower(LicenseText))))
    => LET key == Strip(Lower(LicenseText))
           permissive == AnyIn({W_apache, W_mit, W_bsd}, key)
           commons == AnyIn({W_cc, W_creative}, key)
           lgpl == Contains(W_lgpl, key)
           gpl == Contains(W_gpl, key)
       IN /\ permissive => probe.out = 900
          /\ (~permissive /\ commons) => probe.out = 700
          /\ (~permissive /\ ~commons /\ lgpl) => probe.out = 900
          /\ (~permissive /\ ~commons /\ ~lgpl /\ gpl) => probe.out = 300
          /\ lgpl => probe.out # 300

\* the README whose License section reads "... the Apache License 2.0"
C19_Witness ==
    /\ RanLicense
    /\ Supplied = None
    /\ probe.up.readme = Resp(200, [NoReadme EXCEPT !.sec = L_section])
    /\ probe.fetches = 1
    /\ probe.out = 900

PutOnStored == probe.op = "put" /\ probe.was # NoItem

\* C21: update_artifact changes a stored artifact only when both the name and
\* the id of the request body match the stored artifact; when either differs
\* the request is rejected and the artifact is left as it was.
C21_NameAndIdMustMatch ==
    (PutOnStored /\ (probe.body.id # probe.id \/ probe.body.name # probe.was.name))
        => (probe.resp.status # 200 /\ Stored(probe.id) = probe.was)

\* C22: after a successful update_artifact(id) with source URL u, get_artifact(id)
\* returns u as the url of the artifact: the new source has replaced the old one.
C22_UpdateReplacesSource ==
    (probe.op = "put" /\ probe.resp.status = 200)
        => get_artifact(Stored(probe.id).type, probe.id) = Answer(200, probe.body.url)

\* the last request was a reset_registry that answered 200
ResetDone == probe.op = "reset" /\ probe.resp.status = 200

\* C23: after reset_registry has completed successfully the Artifacts, Ratings
\* and Audit tables are empty, whatever was done before it, and every id that
\* was stored before the reset gets 404 from get_artifact and from rate_model.
C23_ResetEmptiesAll ==
    ResetDone =>
        /\ artifacts = NoDict /\ ratings = NoDict /\ audit = {}
        /\ \A id \in probe.existed.ids \cup probe.existed.rated :
              /\ rate_model(id).status = 404
              /\ \A artifact_type \in ArtifactTypes :
                    get_artifact(artifact_type, id).status = 404

\* a reset that found an artifact with a cached rating and another without one
C23_Witness ==
    /\ ResetDone
    /\ probe.existed.rated # {}
    /\ probe.existed.ids \ probe.existed.rated # {}

(***************************************************************************)
(* Properties of the route table                                           *)
(***************************************************************************)
Routed(method) == probe.pc = "routed" /\ probe.method = method

\* C24: with the routers registered in the order of main.py and the first
\* matching route serving a request, GET /artifact/model/{id}/rate reaches
\* rate_model, POST /artifact/byRegEx reaches search_by_regex and
\* GET /artifact/byName/{name} reaches search_by_name: no parameterised route
\* registered earlier takes any of them.
C24_DeclaredHandlerServes ==
    /\ (Routed("GET") /\ Len(probe.path) = 4 /\ SubSeq(probe.path, 1, 2) = <<"artifact", "model">>
            /\ probe.path[4] = "rate")
        => probe.handler = "rate_model"
    /\ (Routed("POST") /\ probe.path = <<"artifact", "byRegEx">>)
        => probe.handler = "search_by_regex"
    /\ (Routed("GET") /\ Len(probe.path) >= 3 /\ SubSeq(probe.path, 1, 2) = <<"artifact", "byName">>)
        => probe.handler = "search_by_name"

(***************************************************************************)
(* Properties of BusFactorMetric                                           *)
(***************************************************************************)
RanBusFactor == probe.on /\ probe.scorer = "bus_factor"

\* the recency table C25 names: the limits in days and their scores in thousandths
RecencyTable == << <<30, 1000>>, <<90, 800>>, <<180, 600>>, <<365, 400>> >>

RecencyOf(days) ==
    LET within == {i \in 1..Len(RecencyTable) : days <= RecencyTable[i][1]}
    IN IF within = {} THEN 200 ELSE RecencyTable[MinOf(within)][2]

\* C25: with every other input fixed, BusFactorMetric.calculate is
\* non-increasing in the age in days of last_modified; its recency component is
\* 1.0 up to 30 days, 0.8 up to 90, 0.6 up to 180, 0.4 up to 365 and 0.2
\* beyond, so an older artifact never scores higher than a more recent one.
C25_OlderNeverHigher ==
    RanBusFactor =>
        /\ _check_recent_activity(probe.mi) = RecencyOf(probe.mi.last_modified.days)
        /\ \A days \in Ages :
              days >= probe.mi.last_modified.days
                  => BusFactorCalculate(Aged(probe.mi, days)) <= probe.out

\* an artifact at a bucket limit that scores strictly lower one day later
C25_Witness ==
    /\ RanBusFactor
    /\ probe.mi.last_modified.days = 180
    /\ BusFactorCalculate(Aged(probe.mi, 181)) < probe.out

(***************************************************************************)
(* Properties of check_license_compatibility                               *)
(***************************************************************************)
\* the two families C26 names, as sets of identifiers
GplFamily == {gpl_licenses[i] : i \in 1..Len(gpl_licenses)}

GplLgplFamily == GplFamily \cup {lgpl_licenses[i] : i \in 1..Len(lgpl_licenses)}

\* a license as the function compares it
Normal(license) == Strip(Lower(license))

\* C26: check_license_compatibility returns False whenever either license is
\* in the GPL family (gpl-2.0, gpl-3.0, agpl-3.0) and the other is not in the
\* GPL/LGPL family, for every pair of licenses and in either argument order.
C26_GplNeedsGplFamily ==
    LET a == Normal(probe.artifact_license)
        g == Normal(probe.github_license)
    IN (/\ probe.pc = "answered"
        /\ \/ (a \in GplFamily /\ g \notin GplLgplFamily)
           \/ (g \in GplFamily /\ a \notin GplLgplFamily))
       => probe.out = FALSE

(***************************************************************************)
(* Properties of rate_model against the registry                           *)
(***************************************************************************)
\* a request arrives at slot r in this step: rate_model reads the Artifacts table
Arrives(r) == reqs[r].pc = "idle" /\ reqs'[r].pc # "idle"

\* the id request r asks for is stored as a model when the request arrives
StoredAsModel(r) ==
    has_item(artifacts, reqs'[r].id) /\ artifacts[reqs'[r].id].type = "model"

\* C27: rate_model returns a Rating, fresh or cached, only if the artifact id
\* is in the Artifacts table with type "model" when the request is made; once
\* delete_artifact(id) has removed it every rate request for id is answered
\* 404 (403 without a token, 500 when the table cannot be read), also when a
\* rating for id is still in the cache.
C27_RatingNeedsStoredModel ==
    [][\A r \in Slots :
        /\ (Arrives(r) /\ ~has_item(artifacts, reqs'[r].id))
            => /\ reqs'[r].pc = "done"
               /\ reqs'[r].resp.status \in {403, 404, 500}
               /\ reqs'[r].resp.status = 403 => reqs'[r].resp.cause = "auth"
               /\ reqs'[r].resp.status = 500 => reqs'[r].resp.cause = "artifacts.get_item"
        /\ (Arrives(r) /\ reqs'[r].pc # "done") => StoredAsModel(r)
        /\ (Arrives(r) /\ reqs'[r].resp.status = 200) => StoredAsModel(r)
        /\ (Ends(r) /\ reqs'[r].resp.status = 200 /\ ~Arrives(r))
            => reqs[r].artifact.type = "model"]_vars

\* a request for a deleted id whose rating is still cached has been answered 404
C27_Witness ==
    \E r \in Slots :
        /\ reqs[r].pc = "done"
        /\ reqs[r].resp.status = 404
        /\ has_item(ratings, reqs[r].id)
        /\ ~has_item(artifacts, reqs[r].id)

\* request r takes a step
Steps(r) == reqs'[r] # reqs[r]

\* C28: every rate_model request that ends in an error (403, 404, 400 for a
\* non-model artifact or an unparsable URL, 500) leaves the Ratings table and
\* the Artifacts table unchanged: no step of such a request writes to them,
\* and the 403, 404 and non-model 400 cases run no scorer.
C28_ErrorsWriteNothing ==
    [][\A r \in Slots :
        /\ (Steps(r) /\ (ratings' # ratings \/ artifacts' # artifacts))
            => (Ends(r) /\ reqs'[r].resp.status = 200)
        /\ (Ends(r) /\ reqs'[r].resp.kind = "error")
            => /\ reqs'[r].resp.status \in {400, 403, 404, 500}
               /\ ratings' = ratings /\ artifacts' = artifacts
               /\ reqs'[r].resp.cause \in {"auth", "missing", "type"}
                    => reqs'[r].calls = 0]_vars

\* a request whose scorers ran has ended in 500 at the cache write, and the
\* cache holds no rating for its id
C28_Witness ==
    \E r \in Slots :
        /\ reqs[r].pc = "done"
        /\ reqs[r].resp.status = 500
        /\ reqs[r].calls = 1
        /\ ~has_item(ratings, reqs[r].id)

(***************************************************************************)
(* Properties of DynamoDBService                                           *)
(***************************************************************************)
\* caller c has come back from a call that found its item and reached the table
Served(c) ==
    /\ probe.callers[c].pc = "done"
    /\ probe.callers[c].outcome \notin {"ValueError", "ClientError"}

Versions(item) == {entry.version : entry \in item.change_history}

\* C29: every update_item or delete_item that finds its item and reaches the
\* table succeeds, raises the version of the item by exactly 1 and appends one
\* change_history entry carrying the new version; after any interleaving of
\* concurrent updates and deletes of an item its version is 1 plus the number
\* of successful updates and deletes and no two entries share a version.
C29_VersionCountsChanges ==
    /\ \A c \in Slots :
          Served(c) =>
              /\ probe.callers[c].outcome = "ok"
              /\ probe.callers[c].version \in Versions(probe.items[probe.callers[c].id])
    /\ \A item_id \in DOMAIN probe.items :
          LET item == probe.items[item_id]
          IN /\ Cardinality(item.change_history) = item.version
             /\ Versions(item) = 1..item.version

(***************************************************************************)
(* Properties of canonicalize_name                                         *)
(***************************************************************************)
\* C30: canonicalize_name is idempotent, canonicalize_name(canonicalize_name(x))
\* = canonicalize_name(x) for every string x, so that a name stored by
\* create_artifact is found by search_by_name when it is looked up by its
\* stored form or by its raw form: either lookup asks for the stored name.
C30_CanonicalIsFixed ==
    /\ probe.pc \in {"stored", "looked"} => canonicalize_name(probe.stored) = probe.stored
    /\ probe.pc = "looked" => (probe.found /\ probe.norm_name = probe.stored)

====
